---- MODULE Spec2Model ----
(***************************************************************************)
(* A model of OmnibookLM's retrieval subsystem: the in-memory vector store *)
(* with its IndexedDB persistence (services/vectorStore.ts), the chunking  *)
(* and embedding glue (services/embeddingService.ts) and the handlers of   *)
(* App.tsx that ingest and delete sources.                                 *)
(*                                                                         *)
(* Every async method is cut at its awaits: one action per synchronous     *)
(* stretch of code, so that the interleavings of the JavaScript event loop *)
(* are the interleavings of the actions.                                   *)
(***************************************************************************)
EXTENDS Integers, Sequences, FiniteSets, TLC

VARIABLES
    chunks,        \* VectorStore.chunks: Map<id, DocumentChunk>, in insertion order
    sourceChunks,  \* VectorStore.sourceChunks: Map<sourceId, Set<id>>
    initialized,   \* VectorStore.initialized
    dbChunks,      \* the persisted table db.vectorChunks, keyed by chunk id
    ops,           \* the vector-store calls in flight, one per slot
    scans,         \* history: how many toArray() scans were loaded into memory
    calls,         \* history: how many vector-store calls were issued
    dbSources,     \* the persisted table db.sources: the status of each row
    dbNotebooks,   \* the persisted table db.notebooks: the ids present
    sources,       \* App's `sources` state: the status of each listed source
    currentNotebook, \* App's `currentNotebook` state (0 for null)
    ingest,        \* per source: where its creation and ingestion task stands
    deleting,      \* per source: where handleDeleteSource stands
    embeddingPipeline, \* embeddingService's singleton: "null" or "loaded"
    loads,         \* history: how many pipeline(...) loads were started
    embeds,        \* the generateEmbedding(s) calls, one per slot
    chunking,      \* a call of chunkText: its arguments and its result
    chat           \* a call of generateChatResponse

storeVars == <<chunks, sourceChunks, initialized, dbChunks, ops, scans, calls>>

appVars == <<dbSources, dbNotebooks, sources, currentNotebook, ingest, deleting>>

embedVars == <<embeddingPipeline, loads, embeds>>

vars == <<chunks, sourceChunks, initialized, dbChunks, ops, scans, calls,
          dbSources, dbNotebooks, sources, currentNotebook, ingest, deleting,
          embeddingPipeline, loads, embeds, chunking, chat>>

----------------------------------------------------------------------------
(* Bounds of the model.                                                    *)

NumSources == 2
MaxIndex == 1
MaxOps == 2
MaxCalls == 3
MaxEmbeds == 2

SourceIds == 1..NumSources
Slots == 1..MaxOps
EmbedSlots == 1..MaxEmbeds

----------------------------------------------------------------------------
(* Values.                                                                 *)

\* The value of an absent `embedding?` field (undefined).
Undefined == <<>>

\* Embedding vectors.  The model's embedder has dimension 2 and components
\* in -1..1; on these vectors the floating-point cosine orders and ties
\* exactly as the exact arithmetic used below.
\* A chunk id `${sourceId}-chunk-${index}` is the pair <<sourceId, index>>.
ChunkId(sourceId, index) == <<sourceId, index>>

\* The primary-key order of db.vectorChunks: ids compare as strings, source
\* first and then the index digit.
IdLess(a, b) == a[1] < b[1] \/ (a[1] = b[1] /\ a[2] < b[2])

----------------------------------------------------------------------------
(* JavaScript Map and Dexie table primitives.                              *)

\* A set that never replaces: the chunk is appended even when its id is
\* already a key.
MapSetAppends(m, chunk) == Append(m, chunk)

\* Map.prototype.set on the ordered map `m` (a sequence of chunks keyed by
\* id): an existing key keeps its place, a new key goes last.
MapSet(m, chunk) ==
    IF \E i \in 1..Len(m) : m[i].id = chunk.id
    THEN [i \in 1..Len(m) |-> IF m[i].id = chunk.id THEN chunk ELSE m[i]]
    ELSE Append(m, chunk)

\* Map.prototype.delete.
MapDelete(m, id) == SelectSeq(m, LAMBDA c : c.id # id)

MapHas(m, id) == \E i \in 1..Len(m) : m[i].id = id

MapGet(m, id) == m[CHOOSE i \in 1..Len(m) : m[i].id = id]

\* The `sourceChunks` bookkeeping of addChunks and loadFromDB for one chunk:
\* create the source's id set when it is missing, then add the id.
TrackBySource(sc, chunk) ==
    LET base == IF chunk.sourceId \in DOMAIN sc THEN sc
                ELSE sc @@ (chunk.sourceId :> {})
    IN  [base EXCEPT ![chunk.sourceId] = @ \cup {chunk.id}]

\* The loop body shared by addChunks and loadFromDB, over a sequence of
\* chunks, on the pair of maps.
RECURSIVE UpsertAll(_, _)
UpsertAll(maps, batch) ==
    IF batch = <<>> THEN maps
    ELSE UpsertAll([chunks |-> MapSet(maps.chunks, Head(batch)),
                    sourceChunks |-> TrackBySource(maps.sourceChunks, Head(batch))],
                   Tail(batch))

\* Table.bulkPut: upsert by primary key.
RECURSIVE BulkPut(_, _)
BulkPut(table, batch) ==
    IF batch = <<>> THEN table
    ELSE LET c == Head(batch)
             t == IF c.id \in DOMAIN table
                  THEN [table EXCEPT ![c.id] = c]
                  ELSE table @@ (c.id :> c)
         IN  BulkPut(t, Tail(batch))

\* Table.bulkDelete.
BulkDelete(table, ids) == [k \in (DOMAIN table) \ ids |-> table[k]]

\* Table.toArray: the rows in primary-key order.
RECURSIVE ToArray(_)
ToArray(table) ==
    IF DOMAIN table = {} THEN <<>>
    ELSE LET k == CHOOSE x \in DOMAIN table :
                      \A y \in DOMAIN table : y = x \/ IdLess(x, y)
         IN  <<table[k]>> \o ToArray([j \in (DOMAIN table) \ {k} |-> table[j]])

EmptyTable == [k \in {} |-> k]

----------------------------------------------------------------------------
(* cosineSimilarity and search.                                            *)

RECURSIVE Dot(_, _)
Dot(a, b) == IF a = <<>> THEN 0 ELSE Head(a) * Head(b) + Dot(Tail(a), Tail(b))

\* cosineSimilarity(vecA, vecB).  The quotient dot / (sqrt normA * sqrt normB)
\* is kept exact as [num, den2], standing for num / sqrt(den2); a zero
\* denominator gives 0.  Vectors of different lengths throw.
CosineSimilarity(vecA, vecB) ==
    IF Len(vecA) # Len(vecB) THEN [throws |-> TRUE, num |-> 0, den2 |-> 1]
    ELSE LET normA == Dot(vecA, vecA)
             normB == Dot(vecB, vecB)
         IN  IF normA * normB = 0
             THEN [throws |-> FALSE, num |-> 0, den2 |-> 1]
             ELSE [throws |-> FALSE, num |-> Dot(vecA, vecB), den2 |-> normA * normB]

Sgn(x) == IF x > 0 THEN 1 ELSE IF x < 0 THEN -1 ELSE 0

\* score1 < score2, on exact scores: x -> sgn(x) x^2 is increasing.
ScoreLess(s1, s2) ==
    Sgn(s1.num) * s1.num * s1.num * s2.den2 < Sgn(s2.num) * s2.num * s2.num * s1.den2

\* score >= minScore, for minScore = p / q with q > 0.
ScoreAtLeast(s, minScore) ==
    LET p == minScore[1]
        q == minScore[2]
    IN  IF p >= 0
        THEN s.num >= 0 /\ s.num * s.num * q * q >= p * p * s.den2
        ELSE s.num >= 0 \/ s.num * s.num * q * q <= p * p * s.den2

\* Array.prototype.sort with the comparator (a, b) => b.score - a.score: a
\* stable sort by descending score.  Inserting each element behind every
\* element that does not score lower gives that order.
\* A sort that is not stable: an element goes in front of its equals.
RECURSIVE InsertDescUnstable(_, _)
InsertDescUnstable(sorted, r) ==
    IF sorted = <<>> THEN <<r>>
    ELSE IF ~ScoreLess(r.score, Head(sorted).score)
         THEN <<r>> \o sorted
         ELSE <<Head(sorted)>> \o InsertDescUnstable(Tail(sorted), r)

RECURSIVE InsertDesc(_, _)
InsertDesc(sorted, r) ==
    IF sorted = <<>> THEN <<r>>
    ELSE IF ScoreLess(Head(sorted).score, r.score)
         THEN <<r>> \o sorted
         ELSE <<Head(sorted)>> \o InsertDesc(Tail(sorted), r)

RECURSIVE SortDesc(_)
SortDesc(results) ==
    IF results = <<>> THEN <<>>
    ELSE InsertDesc(SortDesc(SubSeq(results, 1, Len(results) - 1)),
                    results[Len(results)])

\* Array.prototype.slice(0, topK), topK >= 0.
Slice(s, topK) == SubSeq(s, 1, IF topK < Len(s) THEN topK ELSE Len(s))

\* The synchronous part of search, after initialize: the candidates in
\* Map order, the source filter when sourceIds is non-empty, the chunks
\* without embedding skipped, the threshold, the sort and the slice.
\* A search that forgets its allow-list.
ChunksToSearchUnfiltered(m, sourceIds) == m

ChunksToSearch(m, sourceIds) ==
    IF sourceIds # {} THEN SelectSeq(m, LAMBDA c : c.sourceId \in sourceIds) ELSE m

Scored(m, queryEmbedding) ==
    [i \in 1..Len(m) |->
        [chunk |-> m[i], score |-> CosineSimilarity(queryEmbedding, m[i].embedding)]]

SearchThrows(m, queryEmbedding, options) ==
    \E i \in 1..Len(m) :
        /\ (options.sourceIds = {} \/ m[i].sourceId \in options.sourceIds)
        /\ m[i].embedding # Undefined
        /\ Len(m[i].embedding) # Len(queryEmbedding)

Search(m, queryEmbedding, options) ==
    LET chunksToSearch == ChunksToSearch(m, options.sourceIds)
        embedded == SelectSeq(chunksToSearch, LAMBDA c : c.embedding # Undefined)
        results == SelectSeq(Scored(embedded, queryEmbedding),
                             LAMBDA r : ScoreAtLeast(r.score, options.minScore))
    IN  Slice(SortDesc(results), options.topK)

\* getChunksBySourceIds on the two maps: for each source in turn, the chunks
\* of its id set.  The Set iterates in insertion order, which is the order
\* its ids have in `m`: both are inserted by the same loops and deleted
\* together.
RECURSIVE GetChunksBySourceIds(_, _, _)
GetChunksBySourceIds(m, sc, sourceIds) ==
    IF sourceIds = <<>> THEN <<>>
    ELSE LET sourceId == Head(sourceIds)
             found == IF sourceId \in DOMAIN sc
                      THEN SelectSeq(m, LAMBDA c : c.id \in sc[sourceId])
                      ELSE <<>>
         IN  found \o GetChunksBySourceIds(m, sc, Tail(sourceIds))

\* getStats(), without the rounded average.
GetStats == [totalChunks |-> Len(chunks),
             totalSources |-> Cardinality(DOMAIN sourceChunks)]

----------------------------------------------------------------------------
(* chunkText.  A string is a sequence of one-character strings.            *)

IsSpace(c) == c \in {" ", "\n"}

IsPunct(c) == c \in {".", "!", "?"}

Indices(s) == [i \in 1..Len(s) |-> i]

\* text.replace(/\s+/g, ' '): of each run of whitespace the first character
\* stays, as a space.
ReplaceWhitespace(s) ==
    LET kept == SelectSeq(Indices(s),
                          LAMBDA i : ~IsSpace(s[i]) \/ i = 1 \/ ~IsSpace(s[i - 1]))
    IN  [k \in 1..Len(kept) |-> IF IsSpace(s[kept[k]]) THEN " " ELSE s[kept[k]]]

\* .replace(/\n+/g, '\n'): of each run of newlines the first stays.
ReplaceNewlines(s) ==
    LET kept == SelectSeq(Indices(s),
                          LAMBDA i : s[i] # "\n" \/ i = 1 \/ s[i - 1] # "\n")
    IN  [k \in 1..Len(kept) |-> s[kept[k]]]

\* String.prototype.trim
Trim(s) ==
    LET solid == SelectSeq(Indices(s), LAMBDA i : ~IsSpace(s[i]))
    IN  IF solid = <<>> THEN <<>> ELSE SubSeq(s, solid[1], solid[Len(solid)])

\* The number of whitespace (punctuation) characters of s from position i on.
SpaceRun(s, i) ==
    LET stops == SelectSeq(SubSeq(Indices(s), i, Len(s)), LAMBDA j : ~IsSpace(s[j]))
    IN  IF stops = <<>> THEN Len(s) + 1 - i ELSE stops[1] - i

PunctRun(s, i) ==
    LET stops == SelectSeq(SubSeq(Indices(s), i, Len(s)), LAMBDA j : ~IsPunct(s[j]))
    IN  IF stops = <<>> THEN Len(s) + 1 - i ELSE stops[1] - i

\* The length of the match of /\n\s*\n/ at position i of s, 0 when there is
\* none: a newline, then the longest stretch of whitespace that still ends
\* before a newline, then that newline.
MatchParagraphBreak(s, i) ==
    IF s[i] # "\n" THEN 0
    ELSE LET ends == SelectSeq(SubSeq(Indices(s), i + 1, i + SpaceRun(s, i + 1)),
                               LAMBDA j : s[j] = "\n")
         IN  IF ends = <<>> THEN 0 ELSE ends[Len(ends)] - i + 1

\* The length of the match of /[.!?]+\s+/ at position i of s, 0 when none.
MatchSentenceEnd(s, i) ==
    IF ~IsPunct(s[i]) THEN 0
    ELSE LET p == PunctRun(s, i)
             w == SpaceRun(s, i + p)
         IN  IF w = 0 THEN 0 ELSE p + w

\* cleanText.split(/\n\s*\n/): cut at the leftmost match, go on behind it.
RECURSIVE SplitParagraphs(_)
SplitParagraphs(s) ==
    LET starts == SelectSeq(Indices(s), LAMBDA i : MatchParagraphBreak(s, i) > 0)
    IN  IF starts = <<>> THEN <<s>>
        ELSE <<SubSeq(s, 1, starts[1] - 1)>> \o
             SplitParagraphs(SubSeq(s, starts[1] + MatchParagraphBreak(s, starts[1]),
                                    Len(s)))

\* trimmedParagraph.split(/[.!?]+\s+/)
RECURSIVE SplitSentences(_)
SplitSentences(s) ==
    LET starts == SelectSeq(Indices(s), LAMBDA i : MatchSentenceEnd(s, i) > 0)
    IN  IF starts = <<>> THEN <<s>>
        ELSE <<SubSeq(s, 1, starts[1] - 1)>> \o
             SplitSentences(SubSeq(s, starts[1] + MatchSentenceEnd(s, starts[1]),
                                   Len(s)))

\* currentChunk.split(' '): the pieces between consecutive spaces.
SplitWords(s) ==
    LET spaces == SelectSeq(Indices(s), LAMBDA i : s[i] = " ")
        cuts == <<0>> \o spaces \o <<Len(s) + 1>>
    IN  [k \in 1..(Len(spaces) + 1) |-> SubSeq(s, cuts[k] + 1, cuts[k + 1] - 1)]

\* words.slice(-overlap).  slice(-0) is slice(0): the whole array.
SliceLast(words, overlap) ==
    IF overlap <= 0 \/ overlap >= Len(words) THEN words
    ELSE SubSeq(words, Len(words) - overlap + 1, Len(words))

\* words.join(' ')
RECURSIVE Join(_)
Join(words) ==
    IF words = <<>> THEN <<>>
    ELSE IF Len(words) = 1 THEN words[1]
    ELSE LET half == Len(words) \div 2
         IN  Join(SubSeq(words, 1, half)) \o <<" ">>
             \o Join(SubSeq(words, half + 1, Len(words)))

\* The buffer step shared by the paragraph loop and the sentence loop:
\*   if ((currentChunk + ' ' + piece).length > maxChunkSize)
\*       if (currentChunk.length >= minChunkSize) push, restart with overlap
\*       else currentChunk += ' ' + piece
\*   else currentChunk += ' ' + piece
Accumulate(st, piece, o) ==
    IF Len(st.currentChunk) + 1 + Len(piece) > o.maxChunkSize
       /\ Len(st.currentChunk) >= o.minChunkSize
    THEN [chunks |-> Append(st.chunks, Trim(st.currentChunk)),
          currentChunk |-> Join(SliceLast(SplitWords(st.currentChunk), o.overlap))
                           \o <<" ">> \o piece]
    ELSE [st EXCEPT !.currentChunk = @ \o <<" ">> \o piece]

RECURSIVE SentenceLoop(_, _, _)
SentenceLoop(st, sentences, o) ==
    IF sentences = <<>> THEN st
    ELSE SentenceLoop(Accumulate(st, Head(sentences), o), Tail(sentences), o)

\* One iteration of `for (const paragraph of paragraphs)`.
ParagraphStep(st, paragraph, o) ==
    LET trimmedParagraph == Trim(paragraph)
    IN  IF trimmedParagraph = <<>> THEN st
        ELSE IF Len(st.currentChunk) + 1 + Len(trimmedParagraph) > o.maxChunkSize
        THEN LET st1 == Accumulate(st, trimmedParagraph, o)
             IN  IF Len(trimmedParagraph) > o.maxChunkSize
                 THEN SentenceLoop([chunks |-> st1.chunks, currentChunk |-> <<>>],
                                   SplitSentences(trimmedParagraph), o)
                 ELSE st1
        ELSE [st EXCEPT !.currentChunk = @ \o <<" ">> \o trimmedParagraph]

RECURSIVE ParagraphLoop(_, _, _)
ParagraphLoop(st, paragraphs, o) ==
    IF paragraphs = <<>> THEN st
    ELSE ParagraphLoop(ParagraphStep(st, Head(paragraphs), o), Tail(paragraphs), o)

maxChunkSize == 512
overlap == 50
minChunkSize == 100

DefaultOptions ==
    [maxChunkSize |-> maxChunkSize, overlap |-> overlap, minChunkSize |-> minChunkSize]

ChunkText(text, o) ==
    LET cleanText == Trim(ReplaceNewlines(ReplaceWhitespace(text)))
    IN  IF Len(cleanText) <= o.maxChunkSize THEN <<cleanText>>
        ELSE LET st == ParagraphLoop([chunks |-> <<>>, currentChunk |-> <<>>],
                                     SplitParagraphs(cleanText), o)
                 all == IF Len(Trim(st.currentChunk)) >= o.minChunkSize
                        THEN Append(st.chunks, Trim(st.currentChunk))
                        ELSE st.chunks
             IN  SelectSeq(all, LAMBDA c : Len(c) > 0)


----------------------------------------------------------------------------
(* The calls of the vector store.                                          *)

\* A DocumentChunk.  `content` is a sequence of characters.
Chunk(sourceId, index, content, embedding) ==
    [id |-> ChunkId(sourceId, index), sourceId |-> sourceId,
     content |-> content, embedding |-> embedding]

\* The feature-extraction pipeline, of which the model keeps that it is a
\* function of the text: a two-dimensional vector that tells texts of
\* different lengths apart stands in for the normalized 384-dimensional one.
Pipe(text) == <<1, Len(text)>>

batchSize == 10

\* generateEmbeddings: the texts are embedded batchSize at a time, the
\* results concatenated in order.
RECURSIVE GenerateEmbeddings(_)
GenerateEmbeddings(texts) ==
    IF texts = <<>> THEN <<>>
    ELSE LET n == IF batchSize < Len(texts) THEN batchSize ELSE Len(texts)
             batch == SubSeq(texts, 1, n)
             batchResults == [i \in 1..n |-> Pipe(batch[i])]
         IN  batchResults \o GenerateEmbeddings(SubSeq(texts, n + 1, Len(texts)))

\* processDocumentToChunks, when generateEmbeddings does not throw.
ProcessDocumentToChunks(sourceId, content, o) ==
    LET textChunks == ChunkText(content, o)
        embeddings == GenerateEmbeddings(textChunks)
    IN  [i \in 1..Len(textChunks) |->
            Chunk(sourceId, i - 1, textChunks[i], embeddings[i])]

\* The batches handed to addChunks: the chunks 0..n-1 of one source, as
\* processDocumentToChunks numbers them, with embeddings (or none) from E.
BatchesOf(E) ==
    UNION {{[i \in 1..n |-> Chunk(s, i - 1, <<"a">>, e[i])] : e \in [1..n -> E]} :
           s \in SourceIds, n \in 0..(MaxIndex + 1)}

\* Under Spec every added chunk carries the same embedding, which differs
\* from the stored one; under SpecSearch the embeddings vary.
Batches == BatchesOf({<<1, 0>>})

Embeddings == {<<1, 0>>, <<1, 1>>, Undefined}

RichBatches == BatchesOf(Embeddings)

\* The options of search: topK, the allow-list and minScore = p / q.
Options ==
    [topK : {2}, sourceIds : {{}, {1}}, minScore : {<<3, 10>>}]

RichOptions ==
    [topK : 0..2, sourceIds : SUBSET SourceIds, minScore : {<<3, 10>>, <<9, 10>>}]

Queries == {<<1, 0>>}

RichQueries == {<<1, 0>>, <<0, 1>>}

\* What an earlier session may have left in db.vectorChunks.
StoredTables ==
    {EmptyTable,
     BulkPut(EmptyTable, <<Chunk(1, 0, <<"a">>, <<1, 0>>),
                           Chunk(2, 0, <<"a">>, <<1, 1>>)>>)}

\* A call in flight: its arguments, where it stands (pc), what it returned,
\* and history: whether its initialize ran loadFromDB (loaded), whether the
\* scan or the write was rejected, what the caller saw before the call, and
\* whether addChunks found its whole batch already in the index (present).
NoOp ==
    [kind |-> "idle", pc |-> "idle", batch |-> <<>>, sourceId |-> 0, ids |-> {},
     query |-> <<>>, options |-> <<>>, results |-> <<>>, outcome |-> "none",
     loaded |-> FALSE, loadFailed |-> FALSE, dbFailed |-> FALSE, before |-> <<>>,
     present |-> FALSE, sourceIds |-> <<>>]

\* initialize(), up to its first await: nothing to wait for when the flag is
\* set, otherwise loadFromDB is started.
AfterInitialize == IF initialized THEN "body" ELSE "loading"

Issue(t, op) ==
    /\ ops[t].pc = "idle"
    /\ calls < MaxCalls
    /\ calls' = calls + 1
    /\ ops' = [ops EXCEPT ![t] = op]

\* What a caller can see of the index just before it calls
\* removeChunksBySourceId(s): getStats().totalChunks, the chunks s owns, and
\* the chunks of the other sources, in memory and persisted.
Owned(m, s) == SelectSeq(m, LAMBDA c : c.sourceId = s)

NotOwned(m, s) == SelectSeq(m, LAMBDA c : c.sourceId # s)

RowsNotOwned(table, s) ==
    [k \in {j \in DOMAIN table : table[j].sourceId # s} |-> table[k]]

Seen(s) ==
    [totalChunks |-> GetStats.totalChunks, owned |-> Len(Owned(chunks, s)),
     others |-> NotOwned(chunks, s), rows |-> RowsNotOwned(dbChunks, s)]

CallAddChunks(t, B) ==
    /\ \E batch \in B :
         Issue(t, [NoOp EXCEPT !.kind = "add", !.pc = AfterInitialize, !.batch = batch])
    /\ UNCHANGED <<chunks, sourceChunks, initialized, dbChunks, scans>>

CallRemoveChunksBySourceId(t) ==
    /\ \E s \in SourceIds :
         Issue(t, [NoOp EXCEPT !.kind = "remove", !.pc = AfterInitialize,
                               !.sourceId = s, !.before = Seen(s)])
    /\ UNCHANGED <<chunks, sourceChunks, initialized, dbChunks, scans>>

CallSearch(t) ==
    /\ Issue(t, [NoOp EXCEPT !.kind = "search", !.pc = AfterInitialize])
    /\ UNCHANGED <<chunks, sourceChunks, initialized, dbChunks, scans>>

CallGetChunksBySourceIds(t) ==
    /\ Issue(t, [NoOp EXCEPT !.kind = "get", !.pc = AfterInitialize])
    /\ UNCHANGED <<chunks, sourceChunks, initialized, dbChunks, scans>>

\* clear() does not await initialize: it empties both maps at once and then
\* awaits the table's clear.  `before` keeps how many calls had been made
\* when clear was, itself included.
CallClear(t) ==
    /\ Issue(t, [NoOp EXCEPT !.kind = "clear", !.pc = "persist",
                             !.before = calls + 1])
    /\ chunks' = <<>>
    /\ sourceChunks' = EmptyTable
    /\ UNCHANGED <<initialized, dbChunks, scans>>

\* A load whose rejected scan reaches the caller: nothing catches it, the
\* flag stays unset and the call rejects.
LoadFromDBRethrows(t) ==
    /\ ops[t].pc = "loading"
    /\ \/ LET maps == UpsertAll([chunks |-> chunks, sourceChunks |-> sourceChunks],
                                ToArray(dbChunks))
          IN  /\ chunks' = maps.chunks
              /\ sourceChunks' = maps.sourceChunks
              /\ scans' = scans + 1
              /\ initialized' = TRUE
              /\ ops' = [ops EXCEPT ![t].pc = "body", ![t].loaded = TRUE]
       \/ /\ UNCHANGED <<chunks, sourceChunks, scans, initialized>>
          /\ ops' = [ops EXCEPT ![t].pc = "done", ![t].loaded = TRUE,
                                ![t].loadFailed = TRUE, ![t].outcome = "rejected"]
    /\ UNCHANGED <<dbChunks, calls>>

\* loadFromDB resumes from toArray(): the rows are upserted into both maps;
\* a rejected scan is caught and logged.  Back in initialize the flag is set
\* either way, and the caller goes on.
LoadFromDB(t) ==
    /\ ops[t].pc = "loading"
    /\ \/ LET maps == UpsertAll([chunks |-> chunks, sourceChunks |-> sourceChunks],
                                ToArray(dbChunks))
          IN  /\ chunks' = maps.chunks
              /\ sourceChunks' = maps.sourceChunks
              /\ scans' = scans + 1
              /\ ops' = [ops EXCEPT ![t].pc = "body", ![t].loaded = TRUE]
       \/ /\ UNCHANGED <<chunks, sourceChunks, scans>>
          /\ ops' = [ops EXCEPT ![t].pc = "body", ![t].loaded = TRUE,
                                ![t].loadFailed = TRUE]
    /\ initialized' = TRUE
    /\ UNCHANGED <<dbChunks, calls>>

\* Every chunk of the batch is in both maps, as the batch has it.
InIndex(m, sc, batch) ==
    \A i \in 1..Len(batch) :
        /\ MapHas(m, batch[i].id)
        /\ MapGet(m, batch[i].id) = batch[i]
        /\ batch[i].sourceId \in DOMAIN sc
        /\ batch[i].id \in sc[batch[i].sourceId]

\* addChunks after initialize: the upsert loop, then saveToDB is awaited.
AddChunks(t) ==
    /\ ops[t].pc = "body" /\ ops[t].kind = "add"
    /\ LET maps == UpsertAll([chunks |-> chunks, sourceChunks |-> sourceChunks],
                             ops[t].batch)
       IN  /\ chunks' = maps.chunks
           /\ sourceChunks' = maps.sourceChunks
    /\ ops' = [ops EXCEPT ![t].pc = "persist",
                          ![t].present = InIndex(chunks, sourceChunks, ops[t].batch)]
    /\ UNCHANGED <<initialized, dbChunks, scans, calls>>

\* saveToDB: bulkPut, its rejection caught and logged.
SaveToDB(t) ==
    /\ ops[t].pc = "persist" /\ ops[t].kind = "add"
    /\ \/ /\ dbChunks' = BulkPut(dbChunks, ops[t].batch)
          /\ ops' = [ops EXCEPT ![t].pc = "done", ![t].outcome = "ok"]
       \/ /\ UNCHANGED dbChunks
          /\ ops' = [ops EXCEPT ![t].pc = "done", ![t].outcome = "ok",
                                ![t].dbFailed = TRUE]
    /\ UNCHANGED <<chunks, sourceChunks, initialized, scans, calls>>

\* A removal that empties the primary map.
DeleteAllClears(m, ids) == <<>>

\* The in-memory removal of removeChunksBySourceId's ids.
RECURSIVE DeleteAll(_, _)
DeleteAll(m, ids) ==
    IF ids = {} THEN m
    ELSE LET id == CHOOSE x \in ids : TRUE
         IN  DeleteAll(MapDelete(m, id), ids \ {id})

\* A removal that forgets the source's id set.
RemoveChunksKeepsIdSet(t) ==
    /\ ops[t].pc = "body" /\ ops[t].kind = "remove"
    /\ LET sourceId == ops[t].sourceId
       IN  IF sourceId \notin DOMAIN sourceChunks
           THEN /\ ops' = [ops EXCEPT ![t].pc = "done", ![t].outcome = "ok"]
                /\ UNCHANGED <<chunks, sourceChunks>>
           ELSE LET chunkIds == sourceChunks[sourceId]
                IN  /\ chunks' = DeleteAll(chunks, chunkIds)
                    /\ UNCHANGED sourceChunks
                    /\ ops' = [ops EXCEPT ![t].pc = "persist", ![t].ids = chunkIds]
    /\ UNCHANGED <<initialized, dbChunks, scans, calls>>

\* removeChunksBySourceId after initialize: return when the source has no
\* id set; otherwise delete its ids from `chunks`, drop its id set, and
\* await deleteChunksFromDB.
RemoveChunksBySourceId(t) ==
    /\ ops[t].pc = "body" /\ ops[t].kind = "remove"
    /\ LET sourceId == ops[t].sourceId
       IN  IF sourceId \notin DOMAIN sourceChunks
           THEN /\ ops' = [ops EXCEPT ![t].pc = "done", ![t].outcome = "ok"]
                /\ UNCHANGED <<chunks, sourceChunks>>
           ELSE LET chunkIds == sourceChunks[sourceId]
                IN  /\ chunks' = DeleteAll(chunks, chunkIds)
                    /\ sourceChunks' =
                          [k \in (DOMAIN sourceChunks) \ {sourceId} |-> sourceChunks[k]]
                    /\ ops' = [ops EXCEPT ![t].pc = "persist", ![t].ids = chunkIds]
    /\ UNCHANGED <<initialized, dbChunks, scans, calls>>

\* deleteChunksFromDB: bulkDelete, its rejection caught and logged.
DeleteChunksFromDB(t) ==
    /\ ops[t].pc = "persist" /\ ops[t].kind = "remove"
    /\ \/ /\ dbChunks' = BulkDelete(dbChunks, ops[t].ids)
          /\ ops' = [ops EXCEPT ![t].pc = "done", ![t].outcome = "ok"]
       \/ /\ UNCHANGED dbChunks
          /\ ops' = [ops EXCEPT ![t].pc = "done", ![t].outcome = "ok",
                                ![t].dbFailed = TRUE]
    /\ UNCHANGED <<chunks, sourceChunks, initialized, scans, calls>>

\* search after initialize.
SearchChunks(t, Q, O) ==
    /\ ops[t].pc = "body" /\ ops[t].kind = "search"
    /\ \E q \in Q, o \in O :
         ops' = [ops EXCEPT ![t].pc = "done", ![t].query = q, ![t].options = o,
                            ![t].results = IF SearchThrows(chunks, q, o) THEN <<>>
                                           ELSE Search(chunks, q, o),
                            ![t].outcome = IF SearchThrows(chunks, q, o)
                                           THEN "rejected" ELSE "ok"]
    /\ UNCHANGED <<chunks, sourceChunks, initialized, dbChunks, scans, calls>>

\* getChunksBySourceIds after initialize.
GetChunks(t, L) ==
    /\ ops[t].pc = "body" /\ ops[t].kind = "get"
    /\ \E sourceIds \in L :
         ops' = [ops EXCEPT ![t].pc = "done", ![t].outcome = "ok",
                            ![t].sourceIds = sourceIds,
                            ![t].results =
                                GetChunksBySourceIds(chunks, sourceChunks, sourceIds)]
    /\ UNCHANGED <<chunks, sourceChunks, initialized, dbChunks, scans, calls>>

SourceIdLists == {<<1>>, <<2, 1>>}

\* clear resumes from `await db.vectorChunks?.clear()`, which no try/catch
\* surrounds: a rejection rejects clear itself.
ClearDB(t) ==
    /\ ops[t].pc = "persist" /\ ops[t].kind = "clear"
    /\ \/ /\ dbChunks' = EmptyTable
          /\ ops' = [ops EXCEPT ![t].pc = "done", ![t].outcome = "ok"]
       \/ /\ UNCHANGED dbChunks
          /\ ops' = [ops EXCEPT ![t].pc = "done", ![t].outcome = "rejected",
                                ![t].dbFailed = TRUE]
    /\ UNCHANGED <<chunks, sourceChunks, initialized, scans, calls>>

\* The caller takes the settled promise.
Return(t) ==
    /\ ops[t].pc = "done"
    /\ ops' = [ops EXCEPT ![t] = NoOp]
    /\ UNCHANGED <<chunks, sourceChunks, initialized, dbChunks, scans, calls>>

----------------------------------------------------------------------------
(* The calls of the embedding service, cut at their awaits.                *)

\* A generateEmbedding / generateEmbeddings call: its texts, where it
\* stands, how many texts the finished sub-batches covered (i), the results
\* of the current sub-batch by position, the local `embeddings` array, and
\* what the caller got.  `ownLoad` is history: the call started a load.
NoEmbed ==
    [kind |-> "idle", pc |-> "idle", texts |-> <<>>, i |-> 0,
     batchResults |-> EmptyTable, embeddings |-> <<>>, returned |-> <<>>,
     outcome |-> "none", ownLoad |-> FALSE]

\* getEmbeddingPipeline up to its await: the load is started when the
\* singleton is still null.  The count of loads started is kept within
\* MaxEmbeds.
GetEmbeddingPipeline(c, call) ==
    /\ embeds[c].pc = "idle"
    /\ IF embeddingPipeline = "null"
       THEN /\ loads < MaxEmbeds
            /\ loads' = loads + 1
            /\ embeds' = [embeds EXCEPT ![c] = [call EXCEPT !.pc = "loadingModel",
                                                            !.ownLoad = TRUE]]
       ELSE /\ loads' = loads
            /\ embeds' = [embeds EXCEPT ![c] = [call EXCEPT !.pc = "havePipeline"]]
    /\ UNCHANGED embeddingPipeline

CallGenerateEmbedding(c, T) ==
    /\ \E text \in T :
         GetEmbeddingPipeline(c, [NoEmbed EXCEPT !.kind = "one", !.texts = <<text>>])
    /\ UNCHANGED <<storeVars, appVars, chunking, chat>>

CallGenerateEmbeddings(c, L) ==
    /\ \E texts \in L :
         GetEmbeddingPipeline(c, [NoEmbed EXCEPT !.kind = "many", !.texts = texts])
    /\ UNCHANGED <<storeVars, appVars, chunking, chat>>

\* pipeline(...) settles: the singleton is assigned and returned, or the
\* rejection reaches the call's catch, which throws.
PipelineLoaded(c) ==
    /\ embeds[c].pc = "loadingModel"
    /\ \/ /\ embeddingPipeline' = "loaded"
          /\ embeds' = [embeds EXCEPT ![c].pc = "havePipeline"]
       \/ /\ UNCHANGED embeddingPipeline
          /\ embeds' = [embeds EXCEPT ![c].pc = "done", ![c].outcome = "rejected"]
    /\ UNCHANGED <<storeVars, appVars, loads, chunking, chat>>

\* The sub-batch that starts after i texts: texts.slice(i, i + batchSize).
BatchLength(texts, i) ==
    IF i + batchSize < Len(texts) THEN batchSize ELSE Len(texts) - i

\* Results pushed last first.
AssembleReversed(batchResults, n) == [k \in 1..n |-> batchResults[n + 1 - k]]

\* batchResults.map(r => Array.from(r.data)), in the order of the batch.
Assemble(batchResults, n) == [k \in 1..n |-> batchResults[k]]

\* With the pipeline in hand: the loop test of generateEmbeddings.  Either
\* every text is covered and `embeddings` is returned, or the inferences of
\* the next sub-batch are started together.
NextBatch(c) ==
    /\ embeds[c].pc = "havePipeline"
    /\ IF embeds[c].i >= Len(embeds[c].texts)
       THEN embeds' = [embeds EXCEPT ![c].pc = "done", ![c].outcome = "ok",
                                     ![c].returned = embeds[c].embeddings]
       ELSE embeds' = [embeds EXCEPT ![c].pc = "inferring",
                                     ![c].batchResults = EmptyTable]
    /\ UNCHANGED <<storeVars, appVars, embeddingPipeline, loads, chunking, chat>>

\* One inference of the sub-batch settles, in any order.  When the last one
\* resolves, Promise.all resolves and the results are pushed; when one
\* rejects, Promise.all rejects and the catch throws.
Inference(c) ==
    /\ embeds[c].pc = "inferring"
    /\ LET e == embeds[c]
           n == BatchLength(e.texts, e.i)
       IN  \E k \in (1..n) \ DOMAIN e.batchResults :
             \/ LET results == e.batchResults @@ (k :> Pipe(e.texts[e.i + k]))
                IN  IF DOMAIN results = 1..n
                    THEN embeds' = [embeds EXCEPT
                                      ![c].pc = "havePipeline",
                                      ![c].batchResults = results,
                                      ![c].embeddings = e.embeddings \o Assemble(results, n),
                                      ![c].i = e.i + n]
                    ELSE embeds' = [embeds EXCEPT ![c].batchResults = results]
             \/ embeds' = [embeds EXCEPT ![c].pc = "done", ![c].outcome = "rejected"]
    /\ UNCHANGED <<storeVars, appVars, embeddingPipeline, loads, chunking, chat>>

\* The texts handed to the embedder: text k is k characters long.
Repeat(s, n) == [i \in 1..(n * Len(s)) |-> s[((i - 1) % Len(s)) + 1]]

TextList(n) == [k \in 1..n |-> Repeat(<<"a">>, k)]

ShortLists == {TextList(0), TextList(2)}

LongLists == ShortLists \cup {TextList(batchSize + 1)}

EmbedTexts == {<<"a">>}

----------------------------------------------------------------------------
(* The handlers of App.tsx that create, ingest and delete sources.  Every  *)
(* source belongs to the one notebook of the model.                        *)

Notebook == 1

\* The textContent of a new source.
Text(s) == <<"a", "b", " ", "c">>

NoIngest == [pc |-> "none", slot |-> 0, batch |-> <<>>]

\* midFlight is history: handleDeleteSource got past its removal while the
\* source's ingestion was still awaiting processDocumentToChunks.
NoDelete == [pc |-> "idle", slot |-> 0, midFlight |-> FALSE]

\* A vector-store call made by a handler, in the first free slot.
Start(t, op) ==
    /\ ops[t].pc = "idle"
    /\ \A u \in Slots : u < t => ops[u].pc # "idle"
    /\ ops' = [ops EXCEPT ![t] = op]

\* db.sources.update(id, {status}): nothing happens when the row is gone.
UpdateSourceStatus(table, id, status) ==
    IF table[id] = "absent" THEN table ELSE [table EXCEPT ![id] = status]

\* setSources(prev => prev.map(s => s.id === id ? {...s, status} : s)).
MapStatus(list, id, status) ==
    IF list[id] = "absent" THEN list ELSE [list EXCEPT ![id] = status]

\* deleteNotebook's transaction: the notebook's source rows, then the
\* notebook.  db.vectorChunks is not among its tables.
DeleteNotebook ==
    /\ dbSources' = [s \in SourceIds |-> "absent"]
    /\ dbNotebooks' = dbNotebooks \ {Notebook}

\* handleAddTextSource / handleFileUpload, up to `await addSource`: the new
\* source is listed with status INDEXING.
HandleAddTextSource(s) ==
    /\ ingest[s].pc = "none"
    /\ currentNotebook = Notebook
    /\ sources' = [sources EXCEPT ![s] = "INDEXING"]
    /\ ingest' = [ingest EXCEPT ![s].pc = "addSource"]
    /\ UNCHANGED <<storeVars, dbSources, dbNotebooks, currentNotebook, deleting>>

\* addSource puts the row; the handler goes on to start the ingestion task,
\* which calls processDocumentToChunks and awaits the embeddings.
AddSource(s) ==
    /\ ingest[s].pc = "addSource"
    /\ dbSources' = [dbSources EXCEPT ![s] = "INDEXING"]
    /\ ingest' = [ingest EXCEPT ![s].pc = "embedding"]
    /\ UNCHANGED <<storeVars, dbNotebooks, sources, currentNotebook, deleting>>

\* processDocumentToChunks resolves and the task calls addChunks with its
\* chunks, or it rejects and the task's catch calls updateSourceStatus.
ProcessDocument(s) ==
    /\ ingest[s].pc = "embedding"
    /\ \/ \E t \in Slots :
            LET documentChunks == ProcessDocumentToChunks(s, Text(s), DefaultOptions)
            IN  /\ Start(t, [NoOp EXCEPT !.kind = "add", !.pc = AfterInitialize,
                                         !.batch = documentChunks])
                /\ ingest' = [ingest EXCEPT ![s] = [pc |-> "adding", slot |-> t,
                                                    batch |-> documentChunks]]
       \/ /\ ingest' = [ingest EXCEPT ![s].pc = "failing"]
          /\ UNCHANGED ops
    /\ UNCHANGED <<chunks, sourceChunks, initialized, dbChunks, scans, calls,
                   dbSources, dbNotebooks, sources, currentNotebook, deleting>>

\* addChunks has resolved; updateSourceStatus(id, INDEXED) is applied.
MarkIndexed(s) ==
    /\ ingest[s].pc = "adding"
    /\ ops[ingest[s].slot].pc = "done"
    /\ ops' = [ops EXCEPT ![ingest[s].slot] = NoOp]
    /\ dbSources' = UpdateSourceStatus(dbSources, s, "INDEXED")
    /\ ingest' = [ingest EXCEPT ![s].pc = "publishing", ![s].slot = 0]
    /\ UNCHANGED <<chunks, sourceChunks, initialized, dbChunks, scans, calls,
                   dbNotebooks, sources, currentNotebook, deleting>>

\* The task's setSources after updateSourceStatus(id, INDEXED).
PublishIndexed(s) ==
    /\ ingest[s].pc = "publishing"
    /\ sources' = MapStatus(sources, s, "INDEXED")
    /\ ingest' = [ingest EXCEPT ![s].pc = "done"]
    /\ UNCHANGED <<storeVars, dbSources, dbNotebooks, currentNotebook, deleting>>

\* A catch branch that leaves the status as it is.
MarkFailedKeepsStatus(s) ==
    /\ ingest[s].pc = "failing"
    /\ ingest' = [ingest EXCEPT ![s].pc = "publishingFailed"]
    /\ UNCHANGED <<storeVars, dbSources, dbNotebooks, sources, currentNotebook, deleting>>

\* The catch branch: updateSourceStatus(id, FAILED) is applied.
MarkFailed(s) ==
    /\ ingest[s].pc = "failing"
    /\ dbSources' = UpdateSourceStatus(dbSources, s, "FAILED")
    /\ ingest' = [ingest EXCEPT ![s].pc = "publishingFailed"]
    /\ UNCHANGED <<storeVars, dbNotebooks, sources, currentNotebook, deleting>>

\* The catch branch's setSources.
PublishFailed(s) ==
    /\ ingest[s].pc = "publishingFailed"
    /\ sources' = MapStatus(sources, s, "FAILED")
    /\ ingest' = [ingest EXCEPT ![s].pc = "done"]
    /\ UNCHANGED <<storeVars, dbSources, dbNotebooks, currentNotebook, deleting>>

\* db.sources.put is rejected: `await addSource` throws out of the handler,
\* the ingestion task is never started, and the list keeps the new source.
AddSourceRejected(s) ==
    /\ ingest[s].pc = "addSource"
    /\ ingest' = [ingest EXCEPT ![s].pc = "done"]
    /\ UNCHANGED <<storeVars, dbSources, dbNotebooks, sources, currentNotebook, deleting>>

\* updateSourceStatus(id, INDEXED) is rejected: the task's catch takes over.
MarkIndexedRejected(s) ==
    /\ ingest[s].pc = "adding"
    /\ ops[ingest[s].slot].pc = "done"
    /\ ops' = [ops EXCEPT ![ingest[s].slot] = NoOp]
    /\ ingest' = [ingest EXCEPT ![s].pc = "failing", ![s].slot = 0]
    /\ UNCHANGED <<chunks, sourceChunks, initialized, dbChunks, scans, calls,
                   dbSources, dbNotebooks, sources, currentNotebook, deleting>>

\* updateSourceStatus(id, FAILED) is rejected inside the catch: the task
\* ends with an unhandled rejection before its setSources.
MarkFailedRejected(s) ==
    /\ ingest[s].pc = "failing"
    /\ ingest' = [ingest EXCEPT ![s].pc = "done"]
    /\ UNCHANGED <<storeVars, dbSources, dbNotebooks, sources, currentNotebook, deleting>>

\* handleDeleteSource for a listed source, up to `await deleteSource`.
HandleDeleteSource(s) ==
    /\ deleting[s].pc = "idle"
    /\ sources[s] # "absent"
    /\ currentNotebook = Notebook
    /\ deleting' = [deleting EXCEPT ![s].pc = "deleteSource"]
    /\ UNCHANGED <<storeVars, dbSources, dbNotebooks, sources, currentNotebook, ingest>>

\* deleteSource deletes the row; the handler calls removeChunksBySourceId.
DeleteSource(s) ==
    /\ deleting[s].pc = "deleteSource"
    /\ dbSources' = [dbSources EXCEPT ![s] = "absent"]
    /\ \E t \in Slots :
         /\ Start(t, [NoOp EXCEPT !.kind = "remove", !.pc = AfterInitialize,
                                  !.sourceId = s])
         /\ deleting' = [deleting EXCEPT ![s].pc = "removing", ![s].slot = t]
    /\ UNCHANGED <<chunks, sourceChunks, initialized, dbChunks, scans, calls,
                   dbNotebooks, sources, currentNotebook, ingest>>

\* removeChunksBySourceId has resolved; the source leaves the list.
SourceRemoved(s) ==
    /\ deleting[s].pc = "removing"
    /\ ops[deleting[s].slot].pc = "done"
    /\ ops' = [ops EXCEPT ![deleting[s].slot] = NoOp]
    /\ sources' = [sources EXCEPT ![s] = "absent"]
    /\ deleting' = [deleting EXCEPT ![s] = [pc |-> "done", slot |-> 0,
                                            midFlight |-> ingest[s].pc = "embedding"]]
    /\ UNCHANGED <<chunks, sourceChunks, initialized, dbChunks, scans, calls,
                   dbSources, dbNotebooks, currentNotebook, ingest>>

\* handleGoToHomepage: a notebook whose list is empty is deleted on the way;
\* currentNotebook becomes null and the effect on it empties the list.
HandleGoToHomepage ==
    /\ currentNotebook = Notebook
    /\ IF \A s \in SourceIds : sources[s] = "absent"
       THEN DeleteNotebook
       ELSE UNCHANGED <<dbSources, dbNotebooks>>
    /\ currentNotebook' = 0
    /\ sources' = [s \in SourceIds |-> "absent"]
    /\ UNCHANGED <<storeVars, ingest, deleting>>

\* handleNotebookSelect for a notebook of the homepage; the effect on
\* currentNotebook lists what getSourcesByNotebookId finds.
HandleNotebookSelect ==
    /\ currentNotebook = 0
    /\ Notebook \in dbNotebooks
    /\ currentNotebook' = Notebook
    /\ sources' = dbSources
    /\ UNCHANGED <<storeVars, dbSources, dbNotebooks, ingest, deleting>>

\* handleDeleteNotebook, from the homepage.
HandleDeleteNotebook ==
    /\ currentNotebook = 0
    /\ Notebook \in dbNotebooks
    /\ DeleteNotebook
    /\ UNCHANGED <<storeVars, sources, currentNotebook, ingest, deleting>>

\* The status of a source, or that there is no such source.
Statuses == {"absent", "INDEXING", "INDEXED", "FAILED"}

NoChunking == [pc |-> "idle", text |-> <<>>, options |-> <<>>, result |-> <<>>]

\* A generateChatResponse call: its arguments (the query and the ids of the
\* sources passed), where it stands, the INDEXED sources it kept, the query
\* embedding, and the result: whether it has a retrievedChunks property and
\* the chunks.  `handler` tells that handleQuerySubmit made the call;
\* `generations` counts the callOpenRouter calls the call has issued and
\* `prompt` is the kind of messages of the last one.  `messages` and
\* `isLoading` are the state of the application, kept from call to call.
NoChat ==
    [pc |-> "idle", query |-> <<>>, passed |-> {}, checkedSources |-> {},
     queryEmbedding |-> <<>>, hasChunks |-> FALSE, retrievedChunks |-> <<>>,
     outcome |-> "none", handler |-> FALSE, generations |-> 0, prompt |-> "none",
     messages |-> <<>>, isLoading |-> FALSE]

Init ==
    /\ chunks = <<>>
    /\ sourceChunks = EmptyTable
    /\ initialized = FALSE
    /\ dbChunks \in StoredTables
    /\ ops = [t \in Slots |-> NoOp]
    /\ scans = 0
    /\ calls = 0
    /\ dbSources = [s \in SourceIds |-> "absent"]
    /\ dbNotebooks = {Notebook}
    /\ sources = [s \in SourceIds |-> "absent"]
    /\ currentNotebook = Notebook
    /\ ingest = [s \in SourceIds |-> NoIngest]
    /\ deleting = [s \in SourceIds |-> NoDelete]
    /\ embeddingPipeline = "null"
    /\ loads = 0
    /\ embeds = [c \in EmbedSlots |-> NoEmbed]
    /\ chunking = NoChunking
    /\ chat = NoChat

Next ==
    /\ UNCHANGED <<appVars, embedVars, chunking, chat>>
    /\ \E t \in Slots :
        \/ CallAddChunks(t, Batches)
        \/ CallRemoveChunksBySourceId(t)
        \/ CallSearch(t)
        \/ CallClear(t)
        \/ LoadFromDB(t)
        \/ AddChunks(t)
        \/ SaveToDB(t)
        \/ RemoveChunksBySourceId(t)
        \/ DeleteChunksFromDB(t)
        \/ SearchChunks(t, Queries, Options)
        \/ ClearDB(t)
        \/ Return(t)
        \/ CallGetChunksBySourceIds(t)
        \/ GetChunks(t, SourceIdLists)

Spec == Init /\ [][Next]_vars

\* One call at a time, with varied embeddings, queries and options.
NextSearch ==
    /\ UNCHANGED <<appVars, embedVars, chunking, chat>>
    /\ \/ CallAddChunks(1, RichBatches)
       \/ CallRemoveChunksBySourceId(1)
       \/ CallSearch(1)
       \/ CallClear(1)
       \/ LoadFromDB(1)
       \/ AddChunks(1)
       \/ SaveToDB(1)
       \/ RemoveChunksBySourceId(1)
       \/ DeleteChunksFromDB(1)
       \/ SearchChunks(1, RichQueries, RichOptions)
       \/ ClearDB(1)
       \/ Return(1)

SpecSearch == Init /\ [][NextSearch]_vars

\* The documents of SpecDoc: a short text, a text that the small options
\* cut into several chunks, and one that the default options do.
SmallOptions == [maxChunkSize |-> 6, overlap |-> 1, minChunkSize |-> 2]

ShortText == <<"a", "b", ".", " ", "c">>

LongText ==
    Repeat(Repeat(<<"a", "b", "c", "d", "e", "f", "g", "h", " ">>, 9)
           \o <<"a", "b", "c", "d", "e", "f", "g", "h", ".", " ">>, 6)

DocBatches ==
    {ProcessDocumentToChunks(s, d[1], d[2]) :
        s \in SourceIds,
        d \in {<<ShortText, DefaultOptions>>, <<ShortText \o ShortText, SmallOptions>>,
               <<LongText, DefaultOptions>>}}

\* One call at a time: what processDocumentToChunks returns is added,
\* possibly again, and sources are removed.
NextDoc ==
    /\ UNCHANGED <<appVars, embedVars, chunking, chat>>
    /\ \/ CallAddChunks(1, DocBatches)
       \/ CallRemoveChunksBySourceId(1)
       \/ LoadFromDB(1)
       \/ AddChunks(1)
       \/ SaveToDB(1)
       \/ RemoveChunksBySourceId(1)
       \/ DeleteChunksFromDB(1)
       \/ Return(1)

SpecDoc == Init /\ [][NextDoc]_vars

\* One call at a time, where addChunks also gets a chunk that carries the
\* id of source 1's first chunk under source 2.
MovedChunk == [Chunk(2, 0, <<"a">>, <<1, 0>>) EXCEPT !.id = ChunkId(1, 0)]

AnyIdBatches == Batches \cup {<<MovedChunk>>}

NextIds ==
    /\ UNCHANGED <<appVars, embedVars, chunking, chat>>
    /\ \/ CallAddChunks(1, AnyIdBatches)
       \/ CallRemoveChunksBySourceId(1)
       \/ CallClear(1)
       \/ LoadFromDB(1)
       \/ AddChunks(1)
       \/ SaveToDB(1)
       \/ RemoveChunksBySourceId(1)
       \/ DeleteChunksFromDB(1)
       \/ ClearDB(1)
       \/ Return(1)

SpecIds == Init /\ [][NextIds]_vars

\* The application on a fresh database: its handlers, and the steps of the
\* vector-store calls they make.
InitApp == Init /\ dbChunks = EmptyTable

NextApp ==
    /\ UNCHANGED <<embedVars, chunking, chat>>
    /\ \/ \E s \in SourceIds :
             \/ HandleAddTextSource(s)
             \/ AddSource(s)
             \/ ProcessDocument(s)
             \/ MarkIndexed(s)
             \/ PublishIndexed(s)
             \/ MarkFailed(s)
             \/ PublishFailed(s)
             \/ HandleDeleteSource(s)
             \/ DeleteSource(s)
             \/ SourceRemoved(s)
       \/ HandleGoToHomepage
       \/ HandleNotebookSelect
       \/ HandleDeleteNotebook
       \/ /\ UNCHANGED appVars
          /\ \E t \in Slots :
                \/ LoadFromDB(t)
                \/ AddChunks(t)
                \/ SaveToDB(t)
                \/ RemoveChunksBySourceId(t)
                \/ DeleteChunksFromDB(t)

SpecApp == InitApp /\ [][NextApp]_vars

\* Ingestions alone: sources are added and their tasks run side by side;
\* nothing is deleted.  A task that can take a step takes it in the end
\* (its awaits settle), a new source is added only when the user does so.
IngestSteps ==
    /\ UNCHANGED <<embedVars, chunking, chat>>
    /\ \/ \E s \in SourceIds :
             \/ AddSource(s)
             \/ ProcessDocument(s)
             \/ MarkIndexed(s)
             \/ PublishIndexed(s)
             \/ MarkFailed(s)
             \/ PublishFailed(s)
       \/ /\ UNCHANGED appVars
          /\ \E t \in Slots :
                \/ LoadFromDB(t)
                \/ AddChunks(t)
                \/ SaveToDB(t)

NextIngest ==
    \/ /\ UNCHANGED <<embedVars, chunking, chat>>
       /\ \E s \in SourceIds : HandleAddTextSource(s)
    \/ IngestSteps

FairSpecIngest == InitApp /\ [][NextIngest]_vars /\ WF_vars(IngestSteps)

\* Ingestions whose calls of db.sources may be rejected as well.  A call
\* that is awaited settles one way or the other.
NextIngestDb ==
    \/ NextIngest
    \/ /\ UNCHANGED <<embedVars, chunking, chat>>
       /\ \E s \in SourceIds :
             \/ AddSourceRejected(s)
             \/ MarkIndexedRejected(s)
             \/ MarkFailedRejected(s)

FairSpecIngestDb == InitApp /\ [][NextIngestDb]_vars /\ WF_vars(IngestSteps)

\* A later session: the database holds the notebook and sources saved
\* earlier in any status, with or without rows of chunks; the application
\* starts on the homepage with no task running.
InitReopen ==
    /\ chunks = <<>>
    /\ sourceChunks = EmptyTable
    /\ initialized = FALSE
    /\ dbChunks \in StoredTables
    /\ ops = [t \in Slots |-> NoOp]
    /\ scans = 0
    /\ calls = 0
    /\ dbSources \in [SourceIds -> Statuses]
    /\ dbNotebooks = {Notebook}
    /\ sources = [s \in SourceIds |-> "absent"]
    /\ currentNotebook = 0
    /\ ingest = [s \in SourceIds |-> NoIngest]
    /\ deleting = [s \in SourceIds |-> NoDelete]
    /\ embeddingPipeline = "null"
    /\ loads = 0
    /\ embeds = [c \in EmbedSlots |-> NoEmbed]
    /\ chunking = NoChunking
    /\ chat = NoChat

\* The user opens the notebook, goes back to the homepage, and adds
\* sources, which get ids that the database does not hold; the tasks of the
\* added sources run.
NextReopen ==
    \/ /\ UNCHANGED <<embedVars, chunking, chat>>
       /\ \/ HandleNotebookSelect
          \/ HandleGoToHomepage
          \/ \E s \in SourceIds : dbSources[s] = "absent" /\ HandleAddTextSource(s)
    \/ IngestSteps

FairSpecReopen == InitReopen /\ [][NextReopen]_vars /\ WF_vars(IngestSteps)

\* The embedding service alone: the first slot also takes a list longer
\* than one sub-batch.
NextEmbed ==
    /\ \E c \in EmbedSlots :
          \/ CallGenerateEmbedding(c, EmbedTexts)
          \/ CallGenerateEmbeddings(c, IF c = 1 THEN LongLists ELSE ShortLists)
          \/ PipelineLoaded(c)
          \/ NextBatch(c)
          \/ Inference(c)

SpecEmbed == Init /\ [][NextEmbed]_vars

\* The chunker alone, and the ingestion of what it returns
\* (processDocumentToChunks, then addChunks).  Short texts are drawn in full
\* from a small alphabet under tight options; the default options get
\* texts long enough to be cut.
MaxText == 5

Alphabet == {"a", " ", "."}

RECURSIVE TextsUpTo(_)
TextsUpTo(n) ==
    IF n = 0 THEN {<<>>}
    ELSE LET T == TextsUpTo(n - 1)
         IN  T \cup {Append(t, c) : t \in T, c \in Alphabet}

SmallTexts ==
    TextsUpTo(MaxText) \cup {<<"\n">>, <<"a", "\n", "\n", "a", ".", "\n", "a">>}

TightOptions ==
    {[maxChunkSize |-> 2, overlap |-> 1, minChunkSize |-> 1],
     [maxChunkSize |-> 3, overlap |-> 0, minChunkSize |-> 2]}

\* A sentence one character short of minChunkSize, then a long one.
ShortSentenceText ==
    Repeat(<<"a">>, minChunkSize - 1) \o <<".", " ">> \o Repeat(<<"b">>, maxChunkSize - minChunkSize)

\* Sixty words, the eleventh unlike the others, an exclamation mark set off
\* by spaces, and a second sentence that does not fit with the first.
SpacedMarkText ==
    Repeat(<<"a", "b", " ">>, 10) \o <<"c", "d", " ">> \o Repeat(<<"a", "b", " ">>, overlap - 1)
    \o <<"!", " ">> \o Repeat(<<"a", "b", " ">>, 111) \o <<"a", "b">>

DefaultTexts == {<<>>, <<" ">>, LongText, ShortSentenceText, SpacedMarkText}

\* chunkText(text, options) is called and returns.
CallChunkText(T, O) ==
    /\ chunking.pc = "idle"
    /\ \E text \in T, o \in O :
          chunking' = [pc |-> "returned", text |-> text, options |-> o,
                       result |-> ChunkText(text, o)]
    /\ UNCHANGED <<storeVars, appVars, embedVars, chat>>

\* The ingestion task: `if (newSource.textContent)` lets every non-empty
\* string through to processDocumentToChunks, whose chunks go to addChunks.
ChunkedDocuments ==
    IF chunking.pc = "returned" /\ chunking.text # <<>>
    THEN {ProcessDocumentToChunks(1, chunking.text, chunking.options)}
    ELSE {}

NextChunk ==
    \/ CallChunkText(SmallTexts, TightOptions)
    \/ CallChunkText(DefaultTexts, {DefaultOptions})
    \/ /\ UNCHANGED <<appVars, embedVars, chunking, chat>>
       /\ \/ CallAddChunks(1, ChunkedDocuments)
          \/ LoadFromDB(1)
          \/ AddChunks(1)
          \/ SaveToDB(1)
          \/ Return(1)

SpecChunk == Init /\ [][NextChunk]_vars

----------------------------------------------------------------------------
(* generateChatResponse, as handleQuerySubmit calls it.  The call uses the *)
(* first slot of the embedding service and of the vector store.            *)

\* Every source passed counts as enabled.
CheckedSourcesUnfiltered(passed) == passed

\* sources?.filter(s => s.status === SourceStatus.INDEXED) || []
CheckedSources(passed) == {s \in passed : sources[s] = "INDEXED"}

\* The options of the retrieval: topK 8, the enabled sources, minScore 0.3.
ChatOptions(checkedSources) ==
    [topK |-> 8, sourceIds |-> checkedSources, minScore |-> <<3, 10>>]

\* generateChatResponse(query, sources) up to its first await: a blank
\* query returns at once; with no INDEXED source the general prompt goes to
\* OpenRouter; otherwise generateEmbedding(query) is called.
GenerateChatResponse(call) ==
    /\ chat.pc = "idle"
    /\ IF Trim(call.query) = <<>>
       THEN /\ chat' = [call EXCEPT !.pc = "done", !.outcome = "ok"]
            /\ UNCHANGED <<embedVars, storeVars>>
       ELSE IF CheckedSources(call.passed) = {}
       THEN /\ chat' = [call EXCEPT !.pc = "general", !.generations = 1,
                                    !.prompt = "general"]
            /\ UNCHANGED <<embedVars, storeVars>>
       ELSE /\ chat' = [call EXCEPT !.pc = "embedding",
                                    !.checkedSources = CheckedSources(call.passed)]
            /\ GetEmbeddingPipeline(1, [NoEmbed EXCEPT !.kind = "one",
                                                       !.texts = <<call.query>>])
            /\ UNCHANGED storeVars
    /\ UNCHANGED <<appVars, chunking>>

\* The messages of the conversation: the user's query, the bot's answer with
\* the number of chunks it shows, the bot's apology for an error.
UserMessage == [sender |-> "user", kind |-> "query", chunks |-> 0]

BotMessage(n) == [sender |-> "bot", kind |-> "answer", chunks |-> n]

BotErrorMessage == [sender |-> "bot", kind |-> "error", chunks |-> 0]

MaxMessages == 4

\* handleQuerySubmit: a blank query, or a query while loading, returns;
\* the flag is set, the user's message is appended, and the sources that
\* are checked and INDEXED are passed on.
HandleQuerySubmit(Q) ==
    \E query \in Q, checked \in SUBSET SourceIds :
        /\ Trim(query) # <<>>
        /\ ~chat.isLoading
        /\ Len(chat.messages) + 2 <= MaxMessages
        /\ GenerateChatResponse(
              [chat EXCEPT !.query = query,
                           !.passed = {s \in checked : sources[s] = "INDEXED"},
                           !.handler = TRUE,
                           !.isLoading = TRUE,
                           !.messages = Append(@, UserMessage)])

\* generateChatResponse called with any query and any of the sources.
CallGenerateChatResponse(Q) ==
    \E query \in Q, passed \in SUBSET {s \in SourceIds : sources[s] # "absent"} :
        GenerateChatResponse([chat EXCEPT !.query = query, !.passed = passed])

\* generateEmbedding(query) settles: vectorStore.search is called with the
\* embedding, or the rejection ends the call.
QueryEmbedded ==
    /\ chat.pc = "embedding" /\ embeds[1].pc = "done"
    /\ IF embeds[1].outcome = "ok"
       THEN /\ chat' = [chat EXCEPT !.pc = "searching",
                                    !.queryEmbedding = embeds[1].returned[1]]
            /\ Issue(1, [NoOp EXCEPT !.kind = "search", !.pc = AfterInitialize])
            /\ UNCHANGED <<chunks, sourceChunks, initialized, dbChunks, scans>>
       ELSE /\ chat' = [chat EXCEPT !.pc = "done", !.outcome = "rejected"]
            /\ UNCHANGED storeVars
    /\ UNCHANGED <<appVars, embedVars, chunking>>

\* Every retrieval takes the prompt with the retrieved context.
PromptAlwaysGrounded(retrievedChunks) == "grounded"

\* if (retrievedChunks.length === 0): the prompt that tells that nothing
\* relevant was found; otherwise the prompt built from the chunks.
PromptFor(retrievedChunks) ==
    IF retrievedChunks = <<>> THEN "noContext" ELSE "grounded"

\* vectorStore.search settles: with no result the prompt that tells so, and
\* otherwise the prompt with the retrieved context, goes to OpenRouter; a
\* rejection of the search ends the call.
ChunksRetrieved ==
    /\ chat.pc = "searching" /\ ops[1].pc = "done"
    /\ IF ops[1].outcome = "ok"
       THEN chat' = [chat EXCEPT !.pc = "openRouter", !.hasChunks = TRUE,
                                 !.retrievedChunks = ops[1].results,
                                 !.generations = @ + 1,
                                 !.prompt = PromptFor(ops[1].results)]
       ELSE chat' = [chat EXCEPT !.pc = "done", !.outcome = "rejected"]
    /\ UNCHANGED <<storeVars, appVars, embedVars, chunking>>

\* callOpenRouter settles: { text } on the general path, { text,
\* retrievedChunks } on the retrieval path, or a rejection.
OpenRouterSettles ==
    /\ chat.pc \in {"general", "openRouter"}
    /\ \/ chat' = [chat EXCEPT !.pc = "done", !.outcome = "ok"]
       \/ chat' = [chat EXCEPT !.pc = "done", !.outcome = "rejected",
                               !.hasChunks = FALSE, !.retrievedChunks = <<>>]
    /\ UNCHANGED <<storeVars, appVars, embedVars, chunking>>

\* A handler without its `finally`: the flag stays set after an error.
ChatReturnsStillLoading ==
    /\ chat.pc = "done"
    /\ chat' = [NoChat EXCEPT
                  !.messages = IF ~chat.handler THEN chat.messages
                               ELSE IF chat.outcome = "ok"
                               THEN Append(chat.messages, BotMessage(Len(chat.retrievedChunks)))
                               ELSE Append(chat.messages, BotErrorMessage),
                  !.isLoading = chat.handler /\ chat.outcome # "ok"]
    /\ embeds' = [embeds EXCEPT ![1] = NoEmbed]
    /\ ops' = [ops EXCEPT ![1] = NoOp]
    /\ UNCHANGED <<chunks, sourceChunks, initialized, dbChunks, scans, calls,
                   embeddingPipeline, loads, appVars, chunking>>

\* handleQuerySubmit takes the result and appends the bot's message, or
\* catches the error and appends the apology; `finally` resets the flag and
\* the next query can be submitted.  A direct caller just gets the result.
ChatReturns ==
    /\ chat.pc = "done"
    /\ chat' = [NoChat EXCEPT
                  !.messages = IF ~chat.handler THEN chat.messages
                               ELSE IF chat.outcome = "ok"
                               THEN Append(chat.messages, BotMessage(Len(chat.retrievedChunks)))
                               ELSE Append(chat.messages, BotErrorMessage),
                  !.isLoading = FALSE]
    /\ embeds' = [embeds EXCEPT ![1] = NoEmbed]
    /\ ops' = [ops EXCEPT ![1] = NoOp]
    /\ UNCHANGED <<chunks, sourceChunks, initialized, dbChunks, scans, calls,
                   embeddingPipeline, loads, appVars, chunking>>

ChatQueries == {<<"a">>, <<" ">>}

\* The application with its sources in any status, over an empty or a
\* filled table.
InitChat ==
    /\ chunks = <<>>
    /\ sourceChunks = EmptyTable
    /\ initialized = FALSE
    /\ dbChunks \in StoredTables
    /\ ops = [t \in Slots |-> NoOp]
    /\ scans = 0
    /\ calls = 0
    /\ sources \in [SourceIds -> Statuses]
    /\ dbSources = sources
    /\ dbNotebooks = {Notebook}
    /\ currentNotebook = Notebook
    /\ ingest = [s \in SourceIds |-> NoIngest]
    /\ deleting = [s \in SourceIds |-> NoDelete]
    /\ embeddingPipeline = "null"
    /\ loads = 0
    /\ embeds = [c \in EmbedSlots |-> NoEmbed]
    /\ chunking = NoChunking
    /\ chat = NoChat

NextChat ==
    \/ HandleQuerySubmit(ChatQueries)
    \/ CallGenerateChatResponse(ChatQueries)
    \/ QueryEmbedded
    \/ ChunksRetrieved
    \/ OpenRouterSettles
    \/ ChatReturns
    \/ /\ UNCHANGED <<storeVars, appVars, chunking, chat>>
       /\ (PipelineLoaded(1) \/ NextBatch(1) \/ Inference(1))
    \/ /\ UNCHANGED <<appVars, embedVars, chunking, chat>>
       /\ \/ LoadFromDB(1)
          \/ SearchChunks(1, {chat.queryEmbedding}, {ChatOptions(chat.checkedSources)})

SpecChat == InitChat /\ [][NextChat]_vars

----------------------------------------------------------------------------
(* Properties of search.                                                   *)

SearchDone(t) == ops[t].kind = "search" /\ ops[t].pc = "done"

\* The positions of `m` that the source filter, the embedding test and the
\* threshold let through.
Candidates(m, q, o) ==
    {i \in 1..Len(m) :
        /\ o.sourceIds = {} \/ m[i].sourceId \in o.sourceIds
        /\ m[i].embedding # Undefined
        /\ ScoreAtLeast(CosineSimilarity(q, m[i].embedding), o.minScore)}

\* Position i ranks before position j: a higher score, or the same score
\* and an earlier place in the map.
RanksBefore(m, q, i, j) ==
    LET si == CosineSimilarity(q, m[i].embedding)
        sj == CosineSimilarity(q, m[j].embedding)
    IN  ScoreLess(sj, si) \/ (~ScoreLess(si, sj) /\ i < j)

Position(m, chunk) == CHOOSE i \in 1..Len(m) : m[i].id = chunk.id

\* R is the first topK elements of the candidates in rank order.
IsTopK(R, m, q, o) ==
    LET cand == Candidates(m, q, o)
        pos(k) == Position(m, R[k].chunk)
    IN  /\ Len(R) = IF o.topK < Cardinality(cand) THEN o.topK ELSE Cardinality(cand)
        /\ \A k \in 1..Len(R) :
              /\ MapHas(m, R[k].chunk.id)
              /\ pos(k) \in cand
              /\ R[k].chunk = m[pos(k)]
              /\ R[k].score = CosineSimilarity(q, R[k].chunk.embedding)
        /\ \A k \in 1..(Len(R) - 1) : RanksBefore(m, q, pos(k), pos(k + 1))
        /\ \A j \in cand :
              \/ \E k \in 1..Len(R) : pos(k) = j
              \/ /\ Len(R) = o.topK
                 /\ Len(R) = 0 \/ RanksBefore(m, q, pos(Len(R)), j)

\* C1: a search with a non-empty allow-list returns only chunks whose
\* sourceId is in the list.
C1_SearchRespectsAllowList ==
    \A t \in DOMAIN ops :
        (SearchDone(t) /\ ops[t].options.sourceIds # {}) =>
            \A k \in 1..Len(ops[t].results) :
                ops[t].results[k].chunk.sourceId \in ops[t].options.sourceIds

\* A search restricted to source 1 returned something while a chunk of
\* source 2 would have cleared the threshold.
C1_Witness ==
    \E t \in DOMAIN ops :
        /\ SearchDone(t)
        /\ ops[t].options.sourceIds = {1}
        /\ ops[t].results # <<>>
        /\ \E i \in 1..Len(chunks) :
              /\ chunks[i].sourceId = 2
              /\ i \in Candidates(chunks, ops[t].query,
                                  [ops[t].options EXCEPT !.sourceIds = {}])

\* C2: the result of search is the first topK of the candidates (source
\* filter, embedding present, score >= minScore) ordered by descending
\* score, equal scores in insertion order.  Calls are sequential here, so
\* the index a finished search read is the current one.
C2_SearchIsTopKOfReference ==
    \A t \in DOMAIN ops :
        SearchDone(t) =>
            /\ ops[t].outcome = "ok"
            /\ IsTopK(ops[t].results, chunks, ops[t].query, ops[t].options)

\* A search cut by topK whose two results tie, with a chunk below the
\* threshold left out.
C2_Witness ==
    \E t \in DOMAIN ops :
        /\ SearchDone(t)
        /\ Len(ops[t].results) = 2
        /\ ~ScoreLess(ops[t].results[2].score, ops[t].results[1].score)
        /\ Cardinality(Candidates(chunks, ops[t].query, ops[t].options)) > 2
        /\ \E i \in 1..Len(chunks) :
              /\ chunks[i].embedding # Undefined
              /\ ~ScoreAtLeast(CosineSimilarity(ops[t].query, chunks[i].embedding),
                               ops[t].options.minScore)

----------------------------------------------------------------------------
(* Properties of removeChunksBySourceId.                                   *)

RemoveDone(t) == ops[t].kind = "remove" /\ ops[t].pc = "done"

IdsOf(m) == {m[i].id : i \in 1..Len(m)}

\* Compared with what the caller saw before the call: the chunks of every
\* other source are the same in both maps and in the table, and totalChunks
\* went down by the number of chunks the source owned.
OthersUntouched(t) ==
    LET s == ops[t].sourceId
        b == ops[t].before
    IN  /\ NotOwned(chunks, s) = b.others
        /\ \A o \in SourceIds \ {s} :
              (IF o \in DOMAIN sourceChunks THEN sourceChunks[o] ELSE {})
                  = IdsOf(Owned(b.others, o))
        /\ RowsNotOwned(dbChunks, s) = b.rows
        /\ GetStats.totalChunks = b.totalChunks - b.owned

----------------------------------------------------------------------------
(* Properties of initialize and of persistence failures.                   *)

\* C8: the persisted table is scanned into memory at most once.
C8_AtMostOneScan == scans <= 1

LeavesLoading(t) == ops[t].pc = "loading" /\ ops'[t].pc # "loading"

\* C9: initialize never raises.  Whenever a call's loadFromDB ends, by a
\* scan or by a rejected scan, the flag is set and the call goes on to its
\* body; a rejected scan changes neither map, a scan leaves every stored
\* row in memory; and no addChunks, search or removeChunksBySourceId ever
\* rejects.
C9_InitializeNeverRaises ==
    /\ [][\A t \in DOMAIN ops :
            LeavesLoading(t) =>
                /\ initialized'
                /\ ops'[t].pc = "body"
                /\ ops'[t].loadFailed =>
                      chunks' = chunks /\ sourceChunks' = sourceChunks
                /\ ~ops'[t].loadFailed =>
                      \A id \in DOMAIN dbChunks :
                          MapHas(chunks', id) /\ MapGet(chunks', id) = dbChunks[id]]_vars
    /\ [](\A t \in DOMAIN ops :
            ops[t].kind \in {"add", "search", "remove"} => ops[t].outcome # "rejected")

\* An addChunks whose load was rejected has completed and its chunks are in
\* memory.
C9_Witness ==
    \E t \in DOMAIN ops :
        /\ ops[t].kind = "add" /\ ops[t].pc = "done"
        /\ ops[t].loadFailed
        /\ ops[t].outcome = "ok"
        /\ ops[t].batch # <<>>
        /\ \A i \in 1..Len(ops[t].batch) : MapHas(chunks, ops[t].batch[i].id)
        /\ initialized

\* C10: a rejected write, delete or clear of the table does not reach the
\* caller of addChunks, removeChunksBySourceId or clear.
C10_WriteFailureNotPropagated ==
    \A t \in DOMAIN ops :
        (ops[t].pc = "done" /\ ops[t].dbFailed) => ops[t].outcome = "ok"

----------------------------------------------------------------------------
(* Properties of ingestion and deletion.                                   *)

\* Neither map nor the persisted table holds a chunk of source s.
NoChunksOf(s) ==
    /\ Owned(chunks, s) = <<>>
    /\ s \notin DOMAIN sourceChunks
    /\ \A id \in DOMAIN dbChunks : dbChunks[id].sourceId # s

HasChunksEverywhere(s) ==
    /\ Owned(chunks, s) # <<>>
    /\ \E id \in DOMAIN dbChunks : dbChunks[id].sourceId = s

\* C4: once a source's row has been removed from db.sources, by
\* handleDeleteSource or by deleteNotebook, and nothing about the source is
\* still running, no chunk of it remains in memory or in db.vectorChunks.
C4_RemovedSourceLeavesNoChunks ==
    \A s \in SourceIds :
        (/\ dbSources[s] = "absent"
         /\ ingest[s].pc = "done"
         /\ deleting[s].pc \in {"idle", "done"}) => NoChunksOf(s)

\* The notebook was deleted after a source had been indexed, with no
\* deletion of the source ever asked for and no call in flight: the
\* source's chunks are still in memory and in db.vectorChunks.
C4_ChunksSurviveDeleteNotebook ==
    \E s \in SourceIds :
        /\ Notebook \notin dbNotebooks
        /\ dbSources[s] = "absent"
        /\ ingest[s].pc = "done"
        /\ deleting[s].pc = "idle"
        /\ \A t \in Slots : ops[t].pc = "idle"
        /\ HasChunksEverywhere(s)

\* C5: when handleDeleteSource(S) has completed while S's ingestion was
\* still awaiting processDocumentToChunks, then after that ingestion has
\* finished no chunk of S is in memory or in db.vectorChunks.
C5_DeleteDuringIngestionLeavesNoChunks ==
    \A s \in SourceIds :
        (deleting[s].midFlight /\ ingest[s].pc = "done") => NoChunksOf(s)

\* The addChunks of source s's ingestion has resolved.
AddCompleted(s) ==
    \/ ingest[s].pc \in {"publishing", "done"}
    \/ ingest[s].pc = "adding" /\ ops[ingest[s].slot].pc = "done"

\* C6: whenever a source's status is INDEXED, in db.sources or in the
\* `sources` state, its addChunks has completed and every chunk of it is in
\* the in-memory index.
C6_IndexedImpliesChunksPresent ==
    \A s \in SourceIds :
        (dbSources[s] = "INDEXED" \/ sources[s] = "INDEXED") =>
            /\ AddCompleted(s)
            /\ ingest[s].batch # <<>>
            /\ InIndex(chunks, sourceChunks, ingest[s].batch)

\* An indexed source is being deleted: removeChunksBySourceId has taken its
\* chunks out of memory and is awaiting the table, and the `sources` state
\* still lists the source as INDEXED.
C6_IndexedListedWhileChunksRemoved ==
    \E s \in SourceIds :
        /\ sources[s] = "INDEXED"
        /\ ingest[s].pc = "done"
        /\ deleting[s].pc = "removing"
        /\ ops[deleting[s].slot].pc = "persist"
        /\ Owned(chunks, s) = <<>>

\* The rows of db.vectorChunks hold the batch.
InTable(table, batch) ==
    \A i \in 1..Len(batch) :
        batch[i].id \in DOMAIN table /\ table[batch[i].id] = batch[i]

\* C7: adding what processDocumentToChunks returns for (sourceId, text)
\* puts those chunks in the index, and adding them when they are already
\* there (a second run returns the same chunks) changes neither map nor the
\* table: the same ids, content and count as after the first addition.
C7_AddingAgainChangesNothing ==
    [][\A t \in DOMAIN ops :
          /\ (ops[t].kind = "add" /\ ops[t].pc = "body" /\ ops'[t].pc = "persist") =>
                /\ InIndex(chunks', sourceChunks', ops[t].batch)
                /\ InIndex(chunks, sourceChunks, ops[t].batch) =>
                      chunks' = chunks /\ sourceChunks' = sourceChunks
          /\ (/\ ops[t].kind = "add" /\ ops[t].pc = "persist" /\ ops'[t].pc = "done"
              /\ InTable(dbChunks, ops[t].batch)) => dbChunks' = dbChunks]_vars

\* A document of several chunks has been added a second time, and
\* written.
C7_Witness ==
    \E t \in DOMAIN ops :
        /\ ops[t].kind = "add" /\ ops[t].pc = "done"
        /\ ops[t].present
        /\ ~ops[t].dbFailed
        /\ Len(ops[t].batch) >= 2
        /\ InTable(dbChunks, ops[t].batch)

----------------------------------------------------------------------------
(* Properties of the embedding service.                                    *)

\* C11: however many generateEmbedding / generateEmbeddings calls are made
\* before the model has loaded, one load only is in flight: a call that
\* finds a load in flight starts none.
C11_OneModelLoadInFlight ==
    Cardinality({c \in EmbedSlots : embeds[c].pc = "loadingModel"}) <= 1

\* C18: a generateEmbeddings call that succeeds returns one vector per
\* text, the i-th being the embedding of the i-th text, whatever the
\* sub-batches and the order in which the inferences settled; a call that
\* fails returns nothing.
C18_EmbeddingsInInputOrder ==
    \A c \in EmbedSlots :
        (embeds[c].kind = "many" /\ embeds[c].pc = "done") =>
            /\ embeds[c].outcome \in {"ok", "rejected"}
            /\ embeds[c].outcome = "ok" =>
                  embeds[c].returned =
                      [k \in 1..Len(embeds[c].texts) |-> Pipe(embeds[c].texts[k])]
            /\ embeds[c].outcome = "rejected" => embeds[c].returned = <<>>

\* A list of batchSize + 1 texts has been embedded, in two sub-batches.
C18_Witness ==
    \E c \in EmbedSlots :
        /\ embeds[c].kind = "many" /\ embeds[c].pc = "done"
        /\ embeds[c].outcome = "ok"
        /\ Len(embeds[c].texts) = batchSize + 1
        /\ Len(embeds[c].returned) = batchSize + 1

----------------------------------------------------------------------------
(* Properties of concurrent calls of the vector store.                     *)

\* The two maps tell the same about every source: its id set is the ids of
\* its chunks, and a source without an id set has no chunk.
MapsAgree ==
    \A s \in SourceIds :
        IF s \in DOMAIN sourceChunks
        THEN sourceChunks[s] = IdsOf(Owned(chunks, s)) /\ sourceChunks[s] # {}
        ELSE Owned(chunks, s) = <<>>

RECURSIVE OwnedInTurn(_, _)
OwnedInTurn(m, sourceIds) ==
    IF sourceIds = <<>> THEN <<>>
    ELSE Owned(m, Head(sourceIds)) \o OwnedInTurn(m, Tail(sourceIds))

RemovesInMemory(t) ==
    ops[t].kind = "remove" /\ ops[t].pc = "body" /\ ops'[t].pc # "body"

Reads(t, kind) ==
    ops[t].kind = kind /\ ops[t].pc = "body" /\ ops'[t].pc = "done"

AddsInMemory(t, s) ==
    /\ ops[t].kind = "add" /\ ops[t].pc = "body" /\ ops'[t].pc # "body"
    /\ \E k \in 1..Len(ops[t].batch) : ops[t].batch[k].sourceId = s

Clears(t) == ops[t].pc = "idle" /\ ops'[t].kind = "clear"

\* C13: while the write of an added batch is pending, its chunks stay in
\* the index that search reads unless a removal or a clear takes them out;
\* while the delete of a removed source is pending, none of its chunks
\* is in the index that search reads unless an addChunks puts one in.
C13_PendingWritesAreVisible ==
    [][\A t \in DOMAIN ops :
          /\ (/\ ops[t].kind = "add" /\ ops[t].pc = "persist"
              /\ InIndex(chunks, sourceChunks, ops[t].batch)
              /\ \A u \in DOMAIN ops : ~RemovesInMemory(u) /\ ~Clears(u))
                => InIndex(chunks', sourceChunks', ops[t].batch)
          /\ (/\ ops[t].kind = "remove" /\ ops[t].pc = "persist"
              /\ Owned(chunks, ops[t].sourceId) = <<>>
              /\ \A u \in DOMAIN ops : ~AddsInMemory(u, ops[t].sourceId))
                => Owned(chunks', ops[t].sourceId) = <<>>]_vars

\* C14: once clear() has returned, with no call of the vector store made
\* after it and no addChunks in flight, both maps and the table are empty.
C14_ClearedStaysEmpty ==
    \A t \in DOMAIN ops :
        (/\ ops[t].kind = "clear" /\ ops[t].pc = "done" /\ ops[t].outcome = "ok"
         /\ calls = ops[t].before
         /\ \A u \in DOMAIN ops : ops[u].kind # "add")
            => /\ chunks = <<>>
               /\ sourceChunks = EmptyTable
               /\ dbChunks = EmptyTable

\* Two calls only were ever made, a clear and a search whose initialize was
\* loading; the clear has returned, the table is empty, and the index
\* holds chunks.
C14_LoadRefillsClearedIndex ==
    \E t, u \in DOMAIN ops :
        /\ ops[t].kind = "clear" /\ ops[t].pc = "done" /\ ops[t].outcome = "ok"
        /\ ops[u].kind = "search" /\ ops[u].loaded
        /\ calls = 2
        /\ dbChunks = EmptyTable
        /\ chunks # <<>>

----------------------------------------------------------------------------
(* Properties of the chunker.                                              *)

\* The words of a chunk: its stretches without a space.
Words(s) == SelectSeq(SplitWords(s), LAMBDA w : w # <<>>)

Min(a, b) == IF a < b THEN a ELSE b

\* The first k words of `next` are the last k words of `chunk`, where k is
\* the overlap or, when the chunk has fewer words, all of them.
OverlapIsPrefix(chunk, next, o) ==
    LET w == Words(chunk)
        v == Words(next)
        k == Min(o.overlap, Len(w))
    IN  /\ Len(v) >= k
        /\ SubSeq(v, 1, k) = SubSeq(w, Len(w) - k + 1, Len(w))

\* C15: no string that chunkText returns is empty, and no chunk of the
\* index or of the table has an empty content.
C15_NoEmptyChunk ==
    /\ chunking.pc = "returned" =>
          \A k \in 1..Len(chunking.result) : chunking.result[k] # <<>>
    /\ \A k \in 1..Len(chunks) : chunks[k].content # <<>>
    /\ \A id \in DOMAIN dbChunks : dbChunks[id].content # <<>>

\* The text of one space was chunked under the default options, and a chunk
\* of empty content is in the index and in the table.
C15_EmptyChunkStored ==
    /\ chunking.pc = "returned" /\ chunking.text = <<" ">>
    /\ chunking.options = DefaultOptions
    /\ \E k \in 1..Len(chunks) : chunks[k].content = <<>>
    /\ \E id \in DOMAIN dbChunks : dbChunks[id].content = <<>>

\* C16: under the default options no returned chunk is empty, and every
\* returned chunk but a sole or last one is at least minChunkSize long.
C16_DefaultChunksReachMinimum ==
    (chunking.pc = "returned" /\ chunking.options = DefaultOptions) =>
        \A k \in 1..Len(chunking.result) :
            /\ chunking.result[k] # <<>>
            /\ \/ Len(chunking.result[k]) >= minChunkSize
               \/ k = Len(chunking.result)

\* Under the default options the first of two chunks is one character
\* short of minChunkSize.
C16_InnerChunkBelowMinimum ==
    /\ chunking.pc = "returned" /\ chunking.options = DefaultOptions
    /\ Len(chunking.result) = 2
    /\ Len(chunking.result[1]) = minChunkSize - 1

\* C17: when chunkText returns more than one chunk, each chunk but the last
\* hands its last `overlap` words (all its words when it has fewer) to the
\* next chunk, which begins with them in the same order.
C17_OverlapIsPrefixOfNext ==
    (chunking.pc = "returned" /\ Len(chunking.result) > 1) =>
        \A i \in 1..(Len(chunking.result) - 1) :
            OverlapIsPrefix(chunking.result[i], chunking.result[i + 1], chunking.options)

\* Under the default options a first chunk of sixty words is followed by a
\* chunk that begins with its last forty-nine words, not its last fifty.
C17_OverlapOneWordShort ==
    /\ chunking.pc = "returned" /\ chunking.options = DefaultOptions
    /\ Len(chunking.result) = 2
    /\ Len(Words(chunking.result[1])) > overlap
    /\ LET w == Words(chunking.result[1])
           v == Words(chunking.result[2])
       IN  /\ SubSeq(v, 1, overlap - 1) = SubSeq(w, Len(w) - overlap + 2, Len(w))
           /\ SubSeq(v, 1, overlap) # SubSeq(w, Len(w) - overlap + 1, Len(w))

----------------------------------------------------------------------------
(* Properties of generateChatResponse.                                     *)

NoEnabledSource(call) == \A s \in call.passed : sources[s] # "INDEXED"

\* C19: every step of a generateChatResponse call that was passed no INDEXED
\* source leaves the embedding service and the vector store as they are
\* (no generateEmbedding, no model load, no search), and what the call
\* returns has no retrieved chunks.
C19_NoRetrievalWithoutEnabledSources ==
    [][(chat'.pc # "idle" /\ chat' # chat /\ NoEnabledSource(chat')) =>
          /\ UNCHANGED <<embedVars, storeVars>>
          /\ chat'.pc \in {"general", "done"}
          /\ ~chat'.hasChunks /\ chat'.retrievedChunks = <<>>]_vars

\* A call with a query, passed a source that is not INDEXED, has returned
\* its text; the embedding service and the vector store were never used.
C19_Witness ==
    /\ chat.pc = "done" /\ chat.outcome = "ok"
    /\ Trim(chat.query) # <<>>
    /\ chat.passed # {} /\ NoEnabledSource(chat)
    /\ ~chat.hasChunks
    /\ embeds[1] = NoEmbed /\ loads = 0 /\ calls = 0

----------------------------------------------------------------------------
(* Properties of a failed ingestion.                                       *)

\* processDocumentToChunks has rejected for the source's task.
EmbeddingFailed(s) ==
    \/ ingest[s].pc \in {"failing", "publishingFailed"}
    \/ dbSources[s] = "FAILED"
    \/ sources[s] = "FAILED"

\* A step of the catch branch of the source's task.
FailureStep(s) ==
    \/ ingest[s].pc = "embedding" /\ ingest'[s].pc = "failing"
    \/ ingest[s].pc = "failing" /\ ingest'[s].pc = "publishingFailed"
    \/ ingest[s].pc = "publishingFailed" /\ ingest'[s].pc = "done"

IsIndexed(s) == dbSources[s] = "INDEXED" /\ sources[s] = "INDEXED"

IsFailed(s) == dbSources[s] = "FAILED" /\ sources[s] = "FAILED"

----------------------------------------------------------------------------
(* Properties of a query that fails, and of a retrieval without result.    *)

\* The query neither adds, replaces nor removes a chunk: the table stays as
\* it is, and the maps change only when initialize loads the table into
\* the still empty index.
IndexUntouched ==
    /\ dbChunks' = dbChunks
    /\ \/ chunks' = chunks /\ sourceChunks' = sourceChunks
       \/ /\ ~initialized /\ chunks = <<>>
          /\ LET maps == UpsertAll([chunks |-> <<>>, sourceChunks |-> EmptyTable],
                                   ToArray(dbChunks))
             IN  chunks' = maps.chunks /\ sourceChunks' = maps.sourceChunks

\* C21: every step of a handleQuerySubmit leaves the index untouched; the
\* submission appends the user's message and sets the loading flag, and
\* nothing is appended while the call runs; a failed embedding ends the
\* call with no generation call issued; and when the call has failed the
\* handler appends the one error message to the messages recorded so far
\* and resets the flag, whatever the call had retrieved.
C21_FailedQueryLeavesIndexAndHistory ==
    [][(chat.handler \/ chat'.handler) =>
          /\ IndexUntouched
          /\ (chat.pc = "idle" /\ chat'.pc # "idle") =>
                /\ chat'.messages = Append(chat.messages, UserMessage)
                /\ chat'.isLoading
          /\ (chat.pc \notin {"idle", "done"}) => chat'.messages = chat.messages
          /\ (chat.pc = "embedding" /\ chat'.pc = "done") =>
                chat'.outcome = "rejected" /\ chat'.generations = 0
          /\ (chat.pc = "done" /\ chat.outcome = "rejected" /\ chat'.pc = "idle") =>
                /\ chat'.messages = Append(chat.messages, BotErrorMessage)
                /\ ~chat'.isLoading
                /\ chat.generations <= 1]_vars

\* A first query failed and got its error message, a second query was
\* submitted, retrieved chunks from the loaded index, and its generation
\* call was rejected.
C21_Witness ==
    /\ chat.handler /\ chat.pc = "done" /\ chat.outcome = "rejected"
    /\ chat.generations = 1 /\ chat.prompt = "grounded"
    /\ chat.messages = <<UserMessage, BotErrorMessage, UserMessage>>
    /\ chat.isLoading
    /\ chunks # <<>>

\* C26 as stated: a call whose search returned no result does not raise and
\* returns an empty retrievedChunks list.
C26_EmptyRetrievalNeverRaises ==
    (chat.pc = "done" /\ chat.prompt = "noContext") =>
        /\ chat.outcome = "ok"
        /\ chat.hasChunks /\ chat.retrievedChunks = <<>>

\* C26, amended: when the search of a call with enabled sources returns no
\* result, the call does not end there and does not take the grounded
\* prompt: it issues its one generation call, with the prompt that carries
\* no context; when that call resolves it returns an empty retrievedChunks
\* list, and it raises only when that call is rejected.
C26_EmptyRetrievalHasItsOwnBranch ==
    [][/\ (chat.pc = "searching" /\ chat' # chat /\ ops[1].outcome = "ok"
           /\ ops[1].results = <<>>) =>
             /\ chat'.pc = "openRouter"
             /\ chat'.prompt = "noContext"
             /\ chat'.generations = 1
       /\ (chat.pc = "openRouter" /\ chat.prompt = "noContext" /\ chat' # chat) =>
             /\ chat'.pc = "done" /\ chat'.generations = 1
             /\ chat'.prompt = "noContext"
             /\ chat'.outcome = "ok" =>
                   chat'.hasChunks /\ chat'.retrievedChunks = <<>>
             /\ chat'.outcome \in {"ok", "rejected"}]_vars

\* With an INDEXED source passed and rows in the table, the search found
\* nothing for the enabled sources and the call returned an empty list.
C26_Witness ==
    /\ chat.pc = "done" /\ chat.outcome = "ok"
    /\ chat.checkedSources # {}
    /\ chat.prompt = "noContext" /\ chat.generations = 1
    /\ chat.hasChunks /\ chat.retrievedChunks = <<>>

----------------------------------------------------------------------------
(* Properties of opening a notebook.                                       *)

\* The notebook is open and lists the source, which was saved in an earlier
\* session and has no chunk in the maps or in the table.
ListedWithoutChunks(s) ==
    /\ currentNotebook = Notebook
    /\ sources[s] # "absent"
    /\ ingest[s].pc = "none"
    /\ NoChunksOf(s)

\* C22: a source that the opened notebook lists without chunks gets its
\* chunks into the index in the end, with no user action asked for.
C22_OpenedNotebookEmbedsItsSources ==
    \A s \in SourceIds : ListedWithoutChunks(s) ~> (Owned(chunks, s) # <<>>)

\* The opened notebook lists source 1 as INDEXING without chunks, and
\* nothing is running: no task, no call of the vector store.
C22_ListedWithoutChunksAtRest ==
    /\ ListedWithoutChunks(1) /\ sources[1] = "INDEXING"
    /\ \A s \in SourceIds : ingest[s].pc \in {"none", "done"}
    /\ \A t \in Slots : ops[t].pc = "idle"
    /\ ~ENABLED IngestSteps

----------------------------------------------------------------------------
(* Properties of the status of an ingested source.                         *)

Settled == {"INDEXED", "FAILED"}

\* C30: a source listed as INDEXING comes to INDEXED or FAILED, in the list
\* and in db.sources alike; a status that is INDEXED or FAILED does not
\* change again, and no status goes back to INDEXING.
C30_IndexingSettlesForGood ==
    /\ \A s \in SourceIds :
          (sources[s] = "INDEXING") ~>
              (sources[s] \in Settled /\ dbSources[s] = sources[s])
    /\ [][\A s \in SourceIds :
            /\ sources[s] \in Settled => sources'[s] = sources[s]
            /\ dbSources[s] \in Settled => dbSources'[s] = dbSources[s]
            /\ sources[s] # "absent" /\ sources'[s] = "INDEXING" =>
                  sources[s] = "INDEXING"]_vars

\* The task of source 1 has ended and nothing of it is left to run, and the
\* list shows the source as INDEXING.
C30_TaskOverStillIndexing ==
    /\ ingest[1].pc = "done"
    /\ sources[1] = "INDEXING"
    /\ \A t \in Slots : ops[t].pc = "idle"
    /\ ~ENABLED IngestSteps

----------------------------------------------------------------------------
(* Properties of re-added chunks and of the secondary index.               *)

\* The calls made so far are the ones in flight or finished in the slots,
\* and every call but t is a read.
OnlyReadsBeside(t) ==
    /\ calls = Cardinality({u \in DOMAIN ops : ops[u].kind # "idle"})
    /\ \A u \in DOMAIN ops \ {t} : ops[u].kind \in {"idle", "search", "get"}

EntriesFor(m, id) == {i \in 1..Len(m) : m[i].id = id}

\* C25: when addChunks has returned with its write done, and nothing but
\* reads was ever called beside it, every chunk of the batch has exactly
\* one entry in the index, the one just added, and the table row of its id
\* is the one just added.
C25_ReAddReplaces ==
    \A t \in DOMAIN ops :
        (/\ ops[t].kind = "add" /\ ops[t].pc = "done" /\ ~ops[t].dbFailed
         /\ OnlyReadsBeside(t)) =>
            /\ \A k \in 1..Len(ops[t].batch) :
                  Cardinality(EntriesFor(chunks, ops[t].batch[k].id)) = 1
            /\ InIndex(chunks, sourceChunks, ops[t].batch)
            /\ InTable(dbChunks, ops[t].batch)

\* addChunks has returned with its write done, beside one search; the table
\* holds the chunk just added and the index holds the older chunk of the
\* same id.
C25_IndexHoldsOlderChunk ==
    \E t \in DOMAIN ops :
        /\ ops[t].kind = "add" /\ ops[t].pc = "done" /\ ~ops[t].dbFailed
        /\ OnlyReadsBeside(t)
        /\ ops[t].batch # <<>>
        /\ InTable(dbChunks, ops[t].batch)
        /\ MapHas(chunks, ops[t].batch[1].id)
        /\ MapGet(chunks, ops[t].batch[1].id) # ops[t].batch[1]

SourcesOf(m) == {m[i].sourceId : i \in 1..Len(m)}

\* C27: whenever no call is under way, the sources with an id set are the
\* sources of the stored chunks, each id set holds the ids of its source's
\* chunks and is not empty, and totalSources counts the sources of the
\* stored chunks.
C27_SecondaryIndexAgrees ==
    (\A t \in DOMAIN ops : ops[t].pc \in {"idle", "done"}) =>
        /\ DOMAIN sourceChunks = SourcesOf(chunks)
        /\ \A s \in DOMAIN sourceChunks :
              sourceChunks[s] = IdsOf(Owned(chunks, s)) /\ sourceChunks[s] # {}
        /\ GetStats.totalSources = Cardinality(SourcesOf(chunks))

\* No call is under way; the chunk stored under the id of source 1's first
\* chunk belongs to source 2, and the id set of source 1 still lists it.
C27_StaleIdAfterMove ==
    /\ \A t \in DOMAIN ops : ops[t].pc \in {"idle", "done"}
    /\ MapHas(chunks, ChunkId(1, 0))
    /\ MapGet(chunks, ChunkId(1, 0)).sourceId = 2
    /\ 1 \in DOMAIN sourceChunks /\ ChunkId(1, 0) \in sourceChunks[1]

\* C28: when removeChunksBySourceId(S) has returned and the only other call
\* ever made is a read, the read returns no chunk of S.
C28_RemovedSourceNeverReturned ==
    [][\A t, r \in DOMAIN ops :
          (/\ ops[r].kind = "remove" /\ ops[r].pc = "done"
           /\ calls = 2
           /\ Reads(t, "search") \/ Reads(t, "get")) =>
              \A k \in 1..Len(ops'[t].results) :
                  LET c == IF ops[t].kind = "search" THEN ops'[t].results[k].chunk
                           ELSE ops'[t].results[k]
                  IN  c.sourceId # ops[r].sourceId]_vars

\* removeChunksBySourceId(1) has returned and its delete was done; the one
\* other call, a getChunksBySourceIds, has returned a chunk of source 1, and
\* the initialized index still holds chunks of source 1 for later reads.
C28_ReadReturnsRemovedChunk ==
    \E t, r \in DOMAIN ops :
        /\ ops[r].kind = "remove" /\ ops[r].pc = "done" /\ ops[r].sourceId = 1
        /\ ~ops[r].dbFailed
        /\ calls = 2
        /\ ops[t].kind = "get" /\ ops[t].pc = "done"
        /\ \E k \in 1..Len(ops[t].results) : ops[t].results[k].sourceId = 1
        /\ \A id \in DOMAIN dbChunks : dbChunks[id].sourceId # 1
        /\ initialized /\ Owned(chunks, 1) # <<>>

----------------------------------------------------------------------------
(* Properties of the chunker's buffer.                                     *)

\* What Accumulate leaves when it emits: the buffer it pushed, the piece
\* that did not fit, and the buffer it goes on with.
Emission(st, piece, o) ==
    LET st1 == Accumulate(st, piece, o)
    IN  IF Len(st1.chunks) > Len(st.chunks)
        THEN <<[emitted |-> st.currentChunk, piece |-> piece,
                buffer |-> st1.currentChunk]>>
        ELSE <<>>

\* The emissions of the sentence loop, in order.
RECURSIVE SentenceEmissions(_, _, _)
SentenceEmissions(st, sentences, o) ==
    IF sentences = <<>> THEN <<>>
    ELSE Emission(st, Head(sentences), o)
         \o SentenceEmissions(Accumulate(st, Head(sentences), o), Tail(sentences), o)

\* The emissions of the paragraph loop, in order: that of the paragraph
\* itself and, for a paragraph longer than maxChunkSize, those of its
\* sentences.
RECURSIVE ParagraphEmissions(_, _, _)
ParagraphEmissions(st, paragraphs, o) ==
    IF paragraphs = <<>> THEN <<>>
    ELSE LET trimmedParagraph == Trim(Head(paragraphs))
             st1 == Accumulate(st, trimmedParagraph, o)
             here == IF trimmedParagraph = <<>> THEN <<>>
                     ELSE Emission(st, trimmedParagraph, o)
                          \o (IF Len(trimmedParagraph) > o.maxChunkSize
                              THEN SentenceEmissions(
                                       [chunks |-> st1.chunks, currentChunk |-> <<>>],
                                       SplitSentences(trimmedParagraph), o)
                              ELSE <<>>)
         IN  here \o ParagraphEmissions(ParagraphStep(st, Head(paragraphs), o),
                                        Tail(paragraphs), o)

CleanText(text) == Trim(ReplaceNewlines(ReplaceWhitespace(text)))

\* The emissions of chunkText(text, o).
Emissions(text, o) ==
    IF Len(CleanText(text)) <= o.maxChunkSize THEN <<>>
    ELSE ParagraphEmissions([chunks |-> <<>>, currentChunk |-> <<>>],
                            SplitParagraphs(CleanText(text)), o)

LastWords(s, k) ==
    LET w == Words(s) IN SubSeq(w, Len(w) - Min(k, Len(w)) + 1, Len(w))

\* C23: at every emission of chunkText the words of the new buffer are the
\* last `overlap` words of the emitted buffer (all of them when it has
\* fewer) followed by the words of the piece that did not fit; with an
\* overlap of 0 they are the words of that piece alone.
C23_BufferRestartsWithOverlap ==
    chunking.pc = "returned" =>
        LET e == Emissions(chunking.text, chunking.options)
        IN  \A i \in 1..Len(e) :
                Words(e[i].buffer) =
                    LastWords(e[i].emitted, chunking.options.overlap)
                    \o Words(e[i].piece)

\* chunkText has returned under an overlap of 0, after an emission whose
\* new buffer begins with every word of the emitted one.
C23_ZeroOverlapCarriesBuffer ==
    /\ chunking.pc = "returned" /\ chunking.options.overlap = 0
    /\ LET e == Emissions(chunking.text, chunking.options)
       IN  \E i \in 1..Len(e) :
               /\ Words(e[i].emitted) # <<>>
               /\ Words(e[i].buffer) = Words(e[i].emitted) \o Words(e[i].piece)

\* The pieces of s between blank-line boundaries that are not blank.
Blocks(s) == SelectSeq(SplitParagraphs(s), LAMBDA b : Trim(b) # <<>>)

Newlines(s) == SelectSeq(s, LAMBDA c : c = "\n")

\* C24: when the normalized text is longer than maxChunkSize, it keeps a
\* newline for every boundary between two blocks of the text, and the
\* paragraph loop has as many paragraphs to work on as the text has blocks.
C24_OneParagraphPerBlock ==
    (/\ chunking.pc = "returned"
     /\ Len(CleanText(chunking.text)) > chunking.options.maxChunkSize) =>
        /\ Len(Blocks(CleanText(chunking.text))) = Len(Blocks(chunking.text))
        /\ Len(Newlines(CleanText(chunking.text))) >= Len(Blocks(chunking.text)) - 1

\* chunkText has returned for a text of two blocks around a blank line,
\* longer than maxChunkSize; the normalized text has no newline and is one
\* paragraph.
C24_BlocksMergedIntoOneParagraph ==
    /\ chunking.pc = "returned"
    /\ Len(CleanText(chunking.text)) > chunking.options.maxChunkSize
    /\ Len(Blocks(chunking.text)) = 2
    /\ Newlines(CleanText(chunking.text)) = <<>>
    /\ Len(SplitParagraphs(CleanText(chunking.text))) = 1

\* The sentences the sentence loop would be given for the text.
SentencesOf(text) ==
    LET paragraphs == SplitParagraphs(CleanText(text))
    IN  UNION {LET sentences == SplitSentences(Trim(paragraphs[i]))
               IN  {Trim(sentences[j]) : j \in 1..Len(sentences)} :
                  i \in 1..Len(paragraphs)}

\* C29: when minChunkSize is at most maxChunkSize, every chunk that
\* chunkText returns is at most maxChunkSize long, unless it is one
\* sentence of the text that is longer than that by itself.
C29_ChunksWithinMaximum ==
    (/\ chunking.pc = "returned"
     /\ chunking.options.minChunkSize <= chunking.options.maxChunkSize) =>
        \A k \in 1..Len(chunking.result) :
            \/ Len(chunking.result[k]) <= chunking.options.maxChunkSize
            \/ chunking.result[k] \in SentencesOf(chunking.text)

\* chunkText has returned, under a minChunkSize below maxChunkSize, a chunk
\* longer than maxChunkSize that is made of two sentences, each of them
\* within maxChunkSize.
C29_OverlapPushesChunkOverMaximum ==
    /\ chunking.pc = "returned"
    /\ chunking.options.minChunkSize < chunking.options.maxChunkSize
    /\ chunking.options.overlap > 0
    /\ \A x \in SentencesOf(chunking.text) : Len(x) <= chunking.options.maxChunkSize
    /\ \E k \in 1..Len(chunking.result) :
          Len(chunking.result[k]) > chunking.options.maxChunkSize

====
